---- MODULE Spec2Model ----
(***************************************************************************)
(* State-machine model of the load balancer's hot path: the four           *)
(* load-balancing algorithms behind BackendRouter, and HealthState.        *)
(*                                                                         *)
(* Machine integers: TLC's integers are 32-bit signed, so a u32 or a usize *)
(* is held as a little-endian sequence of 16-bit limbs (u32: 2 limbs,      *)
(* usize/u64: 4 limbs) and the wrapping arithmetic of the atomics is done  *)
(* limb by limb.                                                           *)
(***************************************************************************)
EXTENDS Integers, Sequences, FiniteSets, TLC

\* ------------------------------------------------------------------ bounds
\* Largest pool (number of ServerInfo entries of the backend).
MaxPool == 3
\* Largest server weight drawn for a weighted pool.
MaxWeight == 2
\* Number of algorithm.select calls recorded for one counter-based pool.
MaxSelects == 6
\* Cap on a LeastConnections counter reached by sequential on_connect calls.
MaxConns == 2
\* Largest unhealthy_threshold / healthy_threshold drawn for a HealthConfig.
MaxThreshold == 2
\* Last second of the clock.
MaxNow == 2
\* Number of calls issued by the threads of a concurrent run.
MaxCalls == 4
\* Number of requests served on one HTTP client connection.
MaxRequests == 2
\* Number of frontends and backends of a configuration, taken together.
MaxEntries == 3
\* Connections a listener accepts, accept errors, and rounds of probes.
MaxAccepts == 2
\* Reload attempts of the configuration watcher.
MaxReloads == 2
\* Length of a configured header value, in tokens.
MaxHeaderLen == 3
\* Frontends of the configuration a router is built from.
MaxFrontends == 2

\* ------------------------------------------------------------ machine words
Limb == 2^16

U32Zero == <<0, 0>>
U32Max == <<Limb - 1, Limb - 1>>
UsizeZero == <<0, 0, 0, 0>>
UsizeMax == <<Limb - 1, Limb - 1, Limb - 1, Limb - 1>>

\* A small natural as a word of n limbs.
ToWord(v, n) == [i \in 1..n |-> IF i = 1 THEN v ELSE 0]

\* w + 1, wrapping to zero (the arithmetic of fetch_add on an atomic).
RECURSIVE WrappingInc(_)
WrappingInc(w) ==
    IF w = <<>> THEN <<>>
    ELSE IF Head(w) = Limb - 1 THEN <<0>> \o WrappingInc(Tail(w))
    ELSE <<Head(w) + 1>> \o Tail(w)

\* w - 1, wrapping to the maximum (the arithmetic of fetch_sub on an atomic).
RECURSIVE WrappingDec(_)
WrappingDec(w) ==
    IF w = <<>> THEN <<>>
    ELSE IF Head(w) = 0 THEN <<Limb - 1>> \o WrappingDec(Tail(w))
    ELSE <<Head(w) - 1>> \o Tail(w)

\* The value of w modulo m, for 0 < m < 2^15.
RECURSIVE WordModFrom(_, _, _, _)
WordModFrom(w, m, i, acc) ==
    IF i = 0 THEN acc
    ELSE WordModFrom(w, m, i - 1, (acc * Limb + w[i]) % m)

WordMod(w, m) == WordModFrom(w, m, Len(w), 0)

\* Unsigned a < b for words of the same length.
RECURSIVE WordLessFrom(_, _, _)
WordLessFrom(a, b, i) ==
    IF i = 0 THEN FALSE
    ELSE IF a[i] # b[i] THEN a[i] < b[i]
    ELSE WordLessFrom(a, b, i - 1)

WordLess(a, b) == WordLessFrom(a, b, Len(a))

\* `x as u32` of a usize: the low 32 bits.
AsU32(w) == SubSeq(w, 1, 2)

\* ----------------------------------------------------------------- domains
\* Option<T>: None is the empty sequence, Some(x) the one-element sequence.
None == <<>>

Some(x) == <<x>>

\* Server addresses (SocketAddr of upstream servers).
Addrs == 1..MaxPool

\* Client socket addresses: an IP and a port.
ClientIPs == {"192.168.1.100", "10.0.0.1"}
ClientPorts == {12345, 54321}
Clients == [ip : ClientIPs, port : ClientPorts]

Algorithms == {"round_robin", "weighted", "least_connections", "ip_hash"}

\* Backend names a caller may pass to the router: the configured pool and
\* a name that is in no configuration.
PoolName == "p"
BackendNames == {PoolName, "missing"}

\* Outputs of DefaultHasher (SipHash with fixed keys) are modelled as an
\* arbitrary fixed function of the hashed bytes, here the IP address alone.
HashValues == {UsizeZero, ToWord(1, 4), ToWord(2, 4), UsizeMax}

\* Counter values a pool's AtomicUsize holds when observation starts: a new
\* instance, and an instance that has already served 2^32 - 2 selections.
CounterStarts == {UsizeZero, <<Limb - 2, Limb - 1, 0, 0>>}

\* Pools of n entries.  Addresses are opaque to the algorithms: entry i has
\* either the address i of its own or repeats the address of the first entry
\* (the configuration does not forbid repeated addresses).  Only Weighted
\* reads the weight; the other algorithms get the default weight 1.
PoolsOf(alg, n) ==
    { p \in [1..n -> [address : Addrs,
                      weight : IF alg = "weighted" THEN 0..MaxWeight ELSE {1}]] :
        \A i \in 1..n : p[i].address \in {1, i} }

VARIABLES
    algorithm,    \* BackendInfo.algorithm of the pool
    servers,      \* BackendInfo.servers, in configuration order
    counter,      \* RoundRobin.counter / Weighted.counter (AtomicUsize)
    connections,  \* LeastConnections.connections: address -> AtomicU32
    hashOf,       \* the hash DefaultHasher gives each client IP
    first,        \* observation: value of counter at the first recorded call
    selected,     \* observation: results of the counter-based select calls
    seen,         \* observation: <<client, result>> of the ip_hash calls
    last          \* observation: the latest call, when it was a select

algVars == <<algorithm, servers, counter, connections, hashOf,
             first, selected, seen, last>>

VARIABLES
    health,       \* HealthState.servers: address -> ServerHealth
    config,       \* HealthState.config
    now,          \* the system clock, in seconds since the epoch
    fstreak,      \* observation: record_failure calls since the last
                  \* record_success call or return to healthy
    sstreak,      \* observation: record_success calls since the last
                  \* record_failure call or fall to unhealthy
    prior         \* observation: the server on which the latest
                  \* record_success call found consecutive_failures > 0,
                  \* 0 when it found none

healthVars == <<health, config, now, fstreak, sstreak, prior>>

VARIABLES
    pc,           \* per thread: the statement it is at, "idle" between calls
    arg,          \* per thread: the server its call is about
    tmp,          \* per thread: the local read by its call
                  \* (successes, failures, current)
    calls,        \* number of calls issued so far
    raced         \* observation: a call was issued while another was running

concVars == <<pc, arg, tmp, calls, raced>>

VARIABLES
    protocol,     \* FrontendConfig.protocol of the listener
    backend_name, \* FrontendConfig.backend of the listener
    hpc,          \* where the connection's handler task is
    backend_addr, \* the handler's backend_addr: what router.select returned
    dialed,       \* observation: backend addresses dialed for the connection
    client_got,   \* observation: what the client has received, in order
    result,       \* what the handler returned: None while it runs
    copy,         \* TCP: the state of the two tokio::io::copy futures
    peers,        \* TCP: what the client and the backend have done
    reqpc,        \* HTTP: where the proxy_request call in progress is
    recorded,     \* MetricsCollector: statuses passed to record_request
    outcomes      \* observation: how each completed proxy_request call went

proxyVars == <<protocol, backend_name, hpc, backend_addr, dialed, client_got,
               result, copy, peers, reqpc, recorded, outcomes>>

VARIABLES
    shutdown_sent,   \* the shutdown broadcast has been sent
    checks_empty,    \* HealthChecker::run found no health check configured
    loops,           \* where each long-running task of `handles` is
    started,         \* connections accepted / probe rounds started, per loop
    accept_errors,   \* accept() calls that returned Err
    main_pc,         \* where run_async is
    join_idx,        \* run_async: index of the handle being awaited
    handlers,        \* connection handler tasks in flight
    deadline_passed, \* the 30 s sleep of run_async has elapsed
    aborted,         \* handler tasks dropped with the runtime
    new_config,      \* a Config as serde has parsed it
    verdict,         \* what validate_config returned for it, if called
    reloads,         \* observation: the file as each try_reload found it
    callbacks,       \* configurations the reload callback was invoked with
    value,           \* a configured header value
    ctx,             \* the ProxyContext of the request
    substituted,     \* what substitute_variables returned for value, if called
    REQUEST_COUNTER, \* the static AtomicU64 of request_id.rs
    count,           \* generate_short_request_id: `count` of each caller
    rid_pc,          \* generate_short_request_id: where each caller is
    ids,             \* observation: the ids returned, in order of return
    backends,        \* HealthChecker.backends
    tick_period,     \* HealthChecker::run: the period of check_interval, once set
    probes,          \* the probe tasks spawned, in order of spawning
    last_probe,      \* observation: how the latest probe to complete went
    gauge,           \* MetricsCollector: active_connections of each frontend
    ended,           \* observation: handler tasks finished, per listener
    frontends,       \* config.frontends as BackendRouter::new was given it
    via              \* observation: the router calls made for the pool, each
                     \* with the frontend whose connection made it

ridVars == <<REQUEST_COUNTER, count, rid_pc, ids>>

checkVars == <<backends, tick_period, probes, last_probe>>

metricVars == <<gauge, ended>>

routeVars == <<frontends, via>>

procVars == <<shutdown_sent, checks_empty, loops, started, accept_errors,
              main_pc, join_idx, handlers, deadline_passed, aborted,
              new_config, verdict, reloads, callbacks,
              value, ctx, substituted, ridVars, checkVars, metricVars,
              routeVars>>

vars == <<algVars, healthVars, concVars, proxyVars, procVars>>

\* Long-running tasks of the process.
Listeners == {"fe1", "fe2"}
Handles == <<"checker", "watcher", "fe1", "fe2">>
Loops == {Handles[i] : i \in 1..Len(Handles)}

\* ------------------------------------------------------------- RoundRobin
\* The off-by-one a pre-increment would give: the index from the new value.
RoundRobinSelectPreInc(srv, ctr) ==
    IF Len(srv) = 0 THEN [result |-> None, counter |-> ctr]
    ELSE [result |-> Some(srv[WordMod(WrappingInc(ctr), Len(srv)) + 1].address),
          counter |-> WrappingInc(ctr)]

\* RoundRobin::select: the result and the counter after the call.
RoundRobinSelect(srv, ctr) ==
    IF Len(srv) = 0 THEN [result |-> None, counter |-> ctr]
    ELSE [result |-> Some(srv[WordMod(ctr, Len(srv)) + 1].address),
          counter |-> WrappingInc(ctr)]

\* --------------------------------------------------------------- Weighted
\* servers.iter().map(|s| s.weight).sum()
RECURSIVE TotalWeight(_)
TotalWeight(srv) ==
    IF srv = <<>> THEN 0 ELSE Head(srv).weight + TotalWeight(Tail(srv))

\* The loop of Weighted::select from entry i on, with its fallback.
RECURSIVE WeightedScan(_, _, _, _)
WeightedScan(srv, i, cumulative, position) ==
    IF i > Len(srv) THEN Some(srv[1].address)
    ELSE LET c == cumulative + srv[i].weight
         IN  IF position < c THEN Some(srv[i].address)
             ELSE WeightedScan(srv, i + 1, c, position)

\* Weighted::select taking its fallback when the total weight is 0.
WeightedSelectZeroFallback(srv, ctr) ==
    IF Len(srv) = 0 THEN [result |-> None, counter |-> ctr]
    ELSE IF TotalWeight(srv) = 0
         THEN [result |-> Some(srv[1].address), counter |-> ctr]
    ELSE [result |-> WeightedScan(srv, 1, 0,
                                  WordMod(AsU32(ctr), TotalWeight(srv))),
          counter |-> WrappingInc(ctr)]

\* Weighted::select: the result and the counter after the call.
WeightedSelect(srv, ctr) ==
    IF Len(srv) = 0 THEN [result |-> None, counter |-> ctr]
    ELSE IF TotalWeight(srv) = 0 THEN [result |-> None, counter |-> ctr]
    ELSE [result |-> WeightedScan(srv, 1, 0,
                                  WordMod(AsU32(ctr), TotalWeight(srv))),
          counter |-> WrappingInc(ctr)]

\* ------------------------------------------------------- LeastConnections
\* LeastConnections::get_connections
GetConnections(conns, a) ==
    IF a \in DOMAIN conns THEN conns[a] ELSE U32Zero

\* A scan that also takes an entry equal to the minimum so far.
RECURSIVE LeastConnScanLastTie(_, _, _, _, _)
LeastConnScanLastTie(srv, conns, i, min_conns, sel) ==
    IF i > Len(srv) THEN sel
    ELSE LET c == GetConnections(conns, srv[i].address)
         IN  IF ~WordLess(min_conns, c)
             THEN LeastConnScanLastTie(srv, conns, i + 1, c, Some(srv[i].address))
             ELSE LeastConnScanLastTie(srv, conns, i + 1, min_conns, sel)

\* The loop of LeastConnections::select from entry i on.
RECURSIVE LeastConnScan(_, _, _, _, _)
LeastConnScan(srv, conns, i, min_conns, sel) ==
    IF i > Len(srv) THEN sel
    ELSE LET c == GetConnections(conns, srv[i].address)
         IN  IF WordLess(c, min_conns)
             THEN LeastConnScan(srv, conns, i + 1, c, Some(srv[i].address))
             ELSE LeastConnScan(srv, conns, i + 1, min_conns, sel)

\* LeastConnections::select
LeastConnectionsSelect(srv, conns) ==
    IF Len(srv) = 0 THEN None
    ELSE LeastConnScan(srv, conns, 1, U32Max, None)

\* LeastConnections::on_connect: entry(server).or_insert(0).fetch_add(1)
LeastConnOnConnect(conns, a) ==
    [x \in DOMAIN conns \cup {a} |->
        IF x = a THEN WrappingInc(GetConnections(conns, a)) ELSE conns[x]]

\* An on_disconnect without the `current > 0` test.
LeastConnOnDisconnectUnclamped(conns, a) ==
    IF a \in DOMAIN conns
    THEN [conns EXCEPT ![a] = WrappingDec(conns[a])]
    ELSE conns

\* LeastConnections::connection_count
ConnectionCount(conns, a) == GetConnections(conns, a)

\* LeastConnections::on_disconnect run without interruption: the load,
\* the test and the fetch_sub.
LeastConnOnDisconnect(conns, a) ==
    IF a \in DOMAIN conns
    THEN LET current == conns[a]
         IN  IF WordLess(U32Zero, current)
             THEN [conns EXCEPT ![a] = WrappingDec(current)]
             ELSE conns
    ELSE conns

\* ----------------------------------------------------------------- IpHash
\* A hash over the whole socket address, port included.
HashClientWithPort(hashes, addr) ==
    IF addr.port = 12345 THEN hashes[addr.ip] ELSE WrappingInc(hashes[addr.ip])

\* IpHash::hash_client: only client_addr.ip() is fed to the hasher.
HashClient(hashes, addr) == hashes[addr.ip]

\* IpHash::select
IpHashSelect(srv, hashes, client) ==
    IF Len(srv) = 0 THEN None
    ELSE LET idx == IF client # None
                    THEN WordMod(HashClient(hashes, client[1]), Len(srv))
                    ELSE 0
         IN  Some(srv[idx + 1].address)

\* ---------------------------------------------------------- BackendRouter
\* algorithm.select of the pool's algorithm instance.
AlgorithmSelect(client) ==
    CASE algorithm = "round_robin" -> RoundRobinSelect(servers, counter)
      [] algorithm = "weighted" -> WeightedSelect(servers, counter)
      [] algorithm = "least_connections" ->
            [result |-> LeastConnectionsSelect(servers, connections),
             counter |-> counter]
      [] algorithm = "ip_hash" ->
            [result |-> IpHashSelect(servers, hashOf, client),
             counter |-> counter]

CounterBased == algorithm \in {"round_robin", "weighted"}

\* What `last` holds when the latest call was not a select.
NoSelect == [op |-> "none", name |-> PoolName, result |-> None]

\* BackendRouter::select(backend_name, client_addr) on the router's state.
RouterSelect(name, client) ==
    /\ CounterBased => Len(selected) < MaxSelects
    /\ IF name # PoolName \/ Len(servers) = 0
       THEN /\ last' = [op |-> "select", name |-> name, result |-> None]
            /\ UNCHANGED <<counter, selected, seen>>
       ELSE LET r == AlgorithmSelect(client)
            IN  /\ counter' = r.counter
                /\ last' = [op |-> "select", name |-> name, result |-> r.result]
                /\ selected' = IF CounterBased THEN Append(selected, r.result)
                               ELSE selected
                /\ seen' = IF algorithm = "ip_hash"
                           THEN seen \cup {<<client, r.result>>}
                           ELSE seen
    /\ UNCHANGED <<algorithm, servers, connections, hashOf, first>>

\* BackendRouter::select called on its own.
Select(name, client) ==
    /\ RouterSelect(name, client)
    /\ UNCHANGED <<healthVars, concVars, proxyVars, procVars>>

\* BackendRouter::on_connect(backend_name, server) on the router's state.
RouterOnConnect(name, a) ==
    /\ algorithm = "least_connections" =>
          WordLess(GetConnections(connections, a), ToWord(MaxConns, 2))
    /\ connections' = IF name = PoolName /\ algorithm = "least_connections"
                      THEN LeastConnOnConnect(connections, a)
                      ELSE connections
    /\ last' = NoSelect
    /\ UNCHANGED <<algorithm, servers, counter, hashOf, first, selected, seen>>

\* BackendRouter::on_connect called on its own.
OnConnect(name, a) ==
    /\ RouterOnConnect(name, a)
    /\ UNCHANGED <<healthVars, concVars, proxyVars, procVars>>

\* BackendRouter::on_disconnect(backend_name, server) on the router's state.
RouterOnDisconnect(name, a) ==
    /\ connections' = IF name = PoolName /\ algorithm = "least_connections"
                      THEN LeastConnOnDisconnect(connections, a)
                      ELSE connections
    /\ last' = NoSelect
    /\ UNCHANGED <<algorithm, servers, counter, hashOf, first, selected, seen>>

\* BackendRouter::on_disconnect called on its own.
OnDisconnect(name, a) ==
    /\ RouterOnDisconnect(name, a)
    /\ UNCHANGED <<healthVars, concVars, proxyVars, procVars>>

\* BackendRouter::new for one pool, and the algorithm instance it builds.
AlgInit ==
    /\ algorithm \in Algorithms
    /\ \E n \in 0..MaxPool : servers \in PoolsOf(algorithm, n)
    /\ counter \in IF algorithm \in {"round_robin", "weighted"}
                   THEN CounterStarts ELSE {UsizeZero}
    /\ first = counter
    /\ connections = <<>>
    /\ hashOf \in IF algorithm = "ip_hash" THEN [ClientIPs -> HashValues]
                  ELSE {[ip \in ClientIPs |-> UsizeZero]}
    /\ selected = <<>>
    /\ seen = {}
    /\ last = NoSelect

AlgNext ==
    \/ \E name \in BackendNames, client \in {Some(c) : c \in Clients} \cup {None} :
          Select(name, client)
    \/ \E name \in BackendNames, a \in Addrs : OnConnect(name, a)
    \/ \E name \in BackendNames, a \in Addrs : OnDisconnect(name, a)

\* FrontendConfig: the fields BackendRouter::new reads.
Frontend(name, alg) == [backend |-> name, algorithm |-> alg]

\* HashMap::insert: the value of an existing key is replaced.
Insert(map, k, v) ==
    [x \in DOMAIN map \cup {k} |-> IF x = k THEN v ELSE map[x]]

\* frontends.iter().map(|f| (f.backend, f.algorithm)).collect(), from entry
\* i on: the pairs are inserted in the order of the iterator.
RECURSIVE Collect(_, _, _)
Collect(fs, i, map) ==
    IF i > Len(fs) THEN map
    ELSE Collect(fs, i + 1, Insert(map, fs[i].backend, fs[i].algorithm))

\* A frontend_algorithms in which the first frontend of a backend stays.
FrontendAlgorithmsFirst(fs) ==
    [b \in {fs[i].backend : i \in 1..Len(fs)} |->
        LET i == CHOOSE i \in 1..Len(fs) :
                    /\ fs[i].backend = b
                    /\ \A j \in 1..(i - 1) : fs[j].backend # b
        IN  fs[i].algorithm]

\* let frontend_algorithms: HashMap<&str, Algorithm>
FrontendAlgorithms(fs) == Collect(fs, 1, <<>>)

\* frontend_algorithms.get(name).cloned().unwrap_or(Algorithm::RoundRobin)
AlgorithmOf(fs, name) ==
    LET frontend_algorithms == FrontendAlgorithms(fs)
    IN  IF name \in DOMAIN frontend_algorithms
        THEN frontend_algorithms[name] ELSE "round_robin"

\* `for backend in backends`, from entry i on: the BackendInfo inserted
\* under each name.  The servers of these backends carry the default weight.
RECURSIVE BackendMap(_, _, _, _)
BackendMap(bs, fs, i, map) ==
    IF i > Len(bs) THEN map
    ELSE BackendMap(bs, fs, i + 1,
            Insert(map, bs[i].name,
                   [servers |-> [k \in 1..Len(bs[i].servers) |->
                                    [address |-> bs[i].servers[k], weight |-> 1]],
                    algorithm |-> AlgorithmOf(fs, bs[i].name)]))

\* BackendRouter::new(backends, frontends): name -> BackendInfo
RouterNew(bs, fs) == BackendMap(bs, fs, 1, <<>>)

\* ------------------------------------------------------------ HealthState
\* Servers whose health is tracked.
HealthServers == {1, 2}

\* Tasks that call into the shared state at the same time.
Threads == {"t1", "t2"}

\* HealthConfig: the thresholds (u32, not validated) and the cooldown, a
\* Duration held in milliseconds.
Thresholds == 0..MaxThreshold
CooldownsMs == {1000}

\* Cap that keeps the streak counters finite.
CounterCap == MaxThreshold

\* ServerHealth::default
NewServerHealth ==
    [healthy |-> TRUE, consecutive_failures |-> 0, consecutive_successes |-> 0,
     active_connections |-> U32Zero, unhealthy_since |-> 0, last_check |-> 0]

\* self.servers.entry(server).or_default()
Entry(h, s) ==
    [x \in DOMAIN h \cup {s} |-> IF x \in DOMAIN h THEN h[x] ELSE NewServerHealth]

\* An is_healthy that reports a server with no record as unhealthy.
IsHealthyUnknownDown(h, s) == IF s \in DOMAIN h THEN h[s].healthy ELSE FALSE

\* HealthState::is_healthy
IsHealthy(h, s) == IF s \in DOMAIN h THEN h[s].healthy ELSE TRUE

\* An is_in_cooldown that compares with <= instead of <.
IsInCooldownInclusive(h, cfg, t, s) ==
    IF s \in DOMAIN h
    THEN IF h[s].unhealthy_since = 0 THEN FALSE
         ELSE LET elapsed == IF t >= h[s].unhealthy_since
                             THEN t - h[s].unhealthy_since ELSE 0
              IN  elapsed * 1000 <= cfg.cooldown
    ELSE FALSE

\* HealthState::is_in_cooldown at clock reading t
IsInCooldown(h, cfg, t, s) ==
    IF s \in DOMAIN h
    THEN IF h[s].unhealthy_since = 0 THEN FALSE
         ELSE LET elapsed == IF t >= h[s].unhealthy_since
                             THEN t - h[s].unhealthy_since ELSE 0
              IN  elapsed * 1000 < cfg.cooldown
    ELSE FALSE

\* HealthState::filter_healthy at clock reading t
FilterHealthy(h, cfg, t, list) ==
    SelectSeq(list, LAMBDA s : IsHealthy(h, s) /\ ~IsInCooldown(h, cfg, t, s))

\* record_success that compares with > instead of >=.
RecordSuccessStrict(r, cfg, t) ==
    LET r1 == [r EXCEPT !.consecutive_failures = 0]
        successes == r1.consecutive_successes + 1
        r2 == [r1 EXCEPT !.consecutive_successes = successes, !.last_check = t]
    IN  IF ~r2.healthy /\ successes > cfg.healthy_threshold
        THEN [r2 EXCEPT !.healthy = TRUE, !.unhealthy_since = 0,
                        !.consecutive_successes = 0]
        ELSE r2

\* record_success that leaves consecutive_failures alone.
RecordSuccessKeepFailures(r, cfg, t) ==
    LET successes == r.consecutive_successes + 1
        r2 == [r EXCEPT !.consecutive_successes = successes, !.last_check = t]
    IN  IF ~r2.healthy /\ successes >= cfg.healthy_threshold
        THEN [r2 EXCEPT !.healthy = TRUE, !.unhealthy_since = 0,
                        !.consecutive_successes = 0]
        ELSE r2

\* record_success that leaves unhealthy_since as it is when the server heals.
RecordSuccessKeepSince(r, cfg, t) ==
    LET r1 == [r EXCEPT !.consecutive_failures = 0]
        successes == r1.consecutive_successes + 1
        r2 == [r1 EXCEPT !.consecutive_successes = successes, !.last_check = t]
    IN  IF ~r2.healthy /\ successes >= cfg.healthy_threshold
        THEN [r2 EXCEPT !.healthy = TRUE, !.consecutive_successes = 0]
        ELSE r2

\* The body of HealthState::record_success on the server's record, run
\* without interruption, the clock reading t.
RecordSuccessRec(r, cfg, t) ==
    LET r1 == [r EXCEPT !.consecutive_failures = 0]
        successes == r1.consecutive_successes + 1
        r2 == [r1 EXCEPT !.consecutive_successes = successes, !.last_check = t]
    IN  IF ~r2.healthy /\ successes >= cfg.healthy_threshold
        THEN [r2 EXCEPT !.healthy = TRUE, !.unhealthy_since = 0,
                        !.consecutive_successes = 0]
        ELSE r2

\* record_failure that compares with > instead of >=.
RecordFailureStrict(r, cfg, t1, t2) ==
    LET r1 == [r EXCEPT !.consecutive_successes = 0]
        failures == r1.consecutive_failures + 1
        r2 == [r1 EXCEPT !.consecutive_failures = failures, !.last_check = t1]
    IN  IF r2.healthy /\ failures > cfg.unhealthy_threshold
        THEN [r2 EXCEPT !.healthy = FALSE, !.unhealthy_since = t2,
                        !.consecutive_failures = 0]
        ELSE r2

\* record_failure that restarts the cooldown at every failure that reaches
\* the threshold, healthy or not.
RecordFailureRestarts(r, cfg, t1, t2) ==
    LET r1 == [r EXCEPT !.consecutive_successes = 0]
        failures == r1.consecutive_failures + 1
        r2 == [r1 EXCEPT !.consecutive_failures = failures, !.last_check = t1]
    IN  IF failures >= cfg.unhealthy_threshold
        THEN [r2 EXCEPT !.healthy = FALSE, !.unhealthy_since = t2,
                        !.consecutive_failures = 0]
        ELSE r2

\* The body of HealthState::record_failure on the server's record, run
\* without interruption, the two clock readings t1 <= t2.
RecordFailureRec(r, cfg, t1, t2) ==
    LET r1 == [r EXCEPT !.consecutive_successes = 0]
        failures == r1.consecutive_failures + 1
        r2 == [r1 EXCEPT !.consecutive_failures = failures, !.last_check = t1]
    IN  IF r2.healthy /\ failures >= cfg.unhealthy_threshold
        THEN [r2 EXCEPT !.healthy = FALSE, !.unhealthy_since = t2,
                        !.consecutive_failures = 0]
        ELSE r2

\* The body of HealthState::mark_unhealthy, run without interruption.
MarkUnhealthyRec(r, t) ==
    IF r.healthy
    THEN [r EXCEPT !.healthy = FALSE, !.unhealthy_since = t,
                   !.consecutive_failures = 0, !.consecutive_successes = 0]
    ELSE r

\* A reset_server that zeroes active_connections with the other counters.
ResetServerRecAll(r) ==
    [r EXCEPT !.healthy = TRUE, !.unhealthy_since = 0,
              !.consecutive_failures = 0, !.consecutive_successes = 0,
              !.active_connections = U32Zero]

\* The body of HealthState::reset_server, run without interruption.
ResetServerRec(r) ==
    [r EXCEPT !.healthy = TRUE, !.unhealthy_since = 0,
              !.consecutive_failures = 0, !.consecutive_successes = 0]

\* HealthState::mark_unhealthy on the map: nothing for a server without record.
MarkUnhealthyOn(h, t, s) ==
    IF s \in DOMAIN h THEN [h EXCEPT ![s] = MarkUnhealthyRec(@, t)] ELSE h

\* HealthState::reset_server on the map: nothing for a server without record.
ResetServerOn(h, s) ==
    IF s \in DOMAIN h THEN [h EXCEPT ![s] = ResetServerRec(@)] ELSE h

\* HealthState::increment_connections on the map.
IncrementConnectionsOn(h, s) ==
    IF s \in DOMAIN h
    THEN [h EXCEPT ![s].active_connections = WrappingInc(@)]
    ELSE h

\* HealthState::decrement_connections on the map, run without interruption.
DecrementConnectionsOn(h, s) ==
    IF s \in DOMAIN h /\ WordLess(U32Zero, h[s].active_connections)
    THEN [h EXCEPT ![s].active_connections = WrappingDec(@)]
    ELSE h

\* Clock readings a call that starts at `now` can take before it returns.
Readings == {t \in {now, now + 1} : t <= MaxNow}

\* HealthState::register_server
RegisterServer(s) ==
    /\ health' = Entry(health, s)
    /\ UNCHANGED <<config, now, fstreak, sstreak, prior>>
    /\ UNCHANGED <<algVars, concVars, proxyVars, procVars>>

\* HealthState::record_success
RecordSuccess(s) ==
    /\ Entry(health, s)[s].consecutive_successes < CounterCap
    /\ health' = [Entry(health, s) EXCEPT ![s] = RecordSuccessRec(@, config, now)]
    /\ sstreak' = [sstreak EXCEPT ![s] = @ + 1]
    /\ fstreak' = [fstreak EXCEPT ![s] = 0]
    /\ prior' = IF Entry(health, s)[s].consecutive_failures > 0 THEN s ELSE 0
    /\ UNCHANGED <<config, now>>
    /\ UNCHANGED <<algVars, concVars, proxyVars, procVars>>

\* HealthState::record_failure
RecordFailure(s) ==
    /\ Entry(health, s)[s].consecutive_failures < CounterCap
    /\ \E t2 \in Readings :
          /\ health' = [Entry(health, s) EXCEPT
                           ![s] = RecordFailureRec(@, config, now, t2)]
          /\ now' = t2
    /\ fstreak' = [fstreak EXCEPT ![s] = @ + 1]
    /\ sstreak' = [sstreak EXCEPT ![s] = 0]
    /\ UNCHANGED <<config, prior>>
    /\ UNCHANGED <<algVars, concVars, proxyVars, procVars>>

\* HealthState::mark_unhealthy
MarkUnhealthy(s) ==
    /\ health' = MarkUnhealthyOn(health, now, s)
    /\ sstreak' = IF IsHealthy(health, s) /\ ~IsHealthy(health', s)
                  THEN [sstreak EXCEPT ![s] = 0] ELSE sstreak
    /\ UNCHANGED <<config, now, fstreak, prior>>
    /\ UNCHANGED <<algVars, concVars, proxyVars, procVars>>

\* HealthState::reset_server
ResetServer(s) ==
    /\ health' = ResetServerOn(health, s)
    /\ fstreak' = [fstreak EXCEPT ![s] = 0]
    /\ sstreak' = [sstreak EXCEPT ![s] = 0]
    /\ UNCHANGED <<config, now, prior>>
    /\ UNCHANGED <<algVars, concVars, proxyVars, procVars>>

\* HealthState::increment_connections, at most one tracked connection per
\* server.
IncrementConnections(s) ==
    /\ s \in DOMAIN health => health[s].active_connections = U32Zero
    /\ health' = IncrementConnectionsOn(health, s)
    /\ UNCHANGED <<config, now, fstreak, sstreak, prior>>
    /\ UNCHANGED <<algVars, concVars, proxyVars, procVars>>

\* HealthState::decrement_connections
DecrementConnections(s) ==
    /\ health' = DecrementConnectionsOn(health, s)
    /\ UNCHANGED <<config, now, fstreak, sstreak, prior>>
    /\ UNCHANGED <<algVars, concVars, proxyVars, procVars>>

\* The clock advances by one second.
Tick ==
    /\ now < MaxNow
    /\ now' = now + 1
    /\ UNCHANGED <<health, config, fstreak, sstreak, prior>>
    /\ UNCHANGED <<algVars, concVars, proxyVars, procVars>>

\* HealthState::with_config
HealthInit ==
    /\ health = <<>>
    /\ config \in [unhealthy_threshold : Thresholds,
                   healthy_threshold : Thresholds,
                   cooldown : CooldownsMs]
    /\ now = 1
    /\ fstreak = [s \in HealthServers |-> 0]
    /\ sstreak = [s \in HealthServers |-> 0]
    /\ prior = 0

HealthNext ==
    \/ \E s \in HealthServers : RegisterServer(s)
    \/ \E s \in HealthServers : RecordSuccess(s)
    \/ \E s \in HealthServers : RecordFailure(s)
    \/ \E s \in HealthServers : MarkUnhealthy(s)
    \/ \E s \in HealthServers : ResetServer(s)
    \/ Tick

\* ------------------------------------------- HealthState, statement by
\* statement. Each field of a ServerHealth is an atomic; a call is the
\* sequence of its loads and stores, and the calls of different threads
\* interleave between them as far as the DashMap guards allow.

\* The server the threads contend on.
ConcServers == {1}

\* Statements of record_success and record_failure: they run under the RefMut
\* that self.servers.entry(server).or_default() returns, which holds the
\* shard's write lock until the call returns.
ServersWriteGuard ==
    {"rs_store_failures", "rs_fetch_add", "rs_last_check", "rs_check",
     "rs_set_healthy", "rs_clear_since", "rs_clear_successes",
     "rf_store_successes", "rf_fetch_add", "rf_last_check", "rf_check",
     "rf_set_unhealthy", "rf_set_since", "rf_clear_failures"}

\* Statements inside `if let Some(health) = self.servers.get(&server)`: they
\* run under a Ref, which holds the shard's read lock.
ServersReadGuard ==
    {"mu_check", "mu_set_unhealthy", "mu_set_since", "mu_clear_failures",
     "mu_clear_successes",
     "rst_set_healthy", "rst_clear_since", "rst_clear_failures",
     "rst_clear_successes",
     "ic_fetch_add", "dc_load", "dc_fetch_sub"}

\* An entry() that does not wait for the other guards.
EntryLockFreeNoWait(t) == TRUE

\* The shard's write lock can be taken: no other thread holds a guard.
EntryLockFree(t) ==
    \A u \in Threads \ {t} : pc[u] \notin ServersWriteGuard \cup ServersReadGuard

\* The shard's read lock can be taken: no other thread holds the write lock.
GetLockFree(t) ==
    \A u \in Threads \ {t} : pc[u] \notin ServersWriteGuard

Goto(t, to) == pc' = [pc EXCEPT ![t] = to]

\* A thread between calls issues a call on server s.
Call(t, s, to) ==
    /\ pc[t] = "idle"
    /\ calls < MaxCalls
    /\ calls' = calls + 1
    /\ arg' = [arg EXCEPT ![t] = s]
    /\ raced' = (raced \/ \E u \in Threads \ {t} : pc[u] # "idle")
    /\ Goto(t, to)
    /\ UNCHANGED tmp

\* What a statement of a HealthState call leaves alone.
HealthFrame ==
    UNCHANGED <<algVars, config, now, fstreak, sstreak, prior, arg, calls, raced,
                proxyVars, procVars>>

\* One store (or read-modify-write) on the record of the thread's server.
Store(t, from, to, rec) ==
    /\ pc[t] = from
    /\ health' = [health EXCEPT ![arg[t]] = rec]
    /\ Goto(t, to)
    /\ UNCHANGED tmp
    /\ HealthFrame

\* register_server: self.servers.entry(server).or_default(), one statement.
CallRegisterServer(t) ==
    /\ EntryLockFree(t)
    /\ \E s \in ConcServers : Call(t, s, "idle")
    /\ health' = Entry(health, arg'[t])
    /\ UNCHANGED <<algVars, config, now, fstreak, sstreak, prior, proxyVars, procVars>>

\* ---- record_success
CallRecordSuccess(t) ==
    /\ \E s \in ConcServers : Call(t, s, "rs_enter")
    /\ UNCHANGED <<algVars, healthVars, proxyVars, procVars>>

\* let entry = self.servers.entry(server).or_default();
RsEntry(t) ==
    /\ pc[t] = "rs_enter"
    /\ EntryLockFree(t)
    /\ health' = Entry(health, arg[t])
    /\ Goto(t, "rs_store_failures")
    /\ UNCHANGED tmp
    /\ HealthFrame

\* entry.consecutive_failures.store(0)
RsStoreFailures(t) ==
    Store(t, "rs_store_failures", "rs_fetch_add",
          [health[arg[t]] EXCEPT !.consecutive_failures = 0])

\* let successes = entry.consecutive_successes.fetch_add(1) + 1;
RsFetchAdd(t) ==
    /\ pc[t] = "rs_fetch_add"
    /\ tmp' = [tmp EXCEPT ![t] = health[arg[t]].consecutive_successes + 1]
    /\ health' = [health EXCEPT ![arg[t]].consecutive_successes = @ + 1]
    /\ Goto(t, "rs_last_check")
    /\ HealthFrame

\* entry.last_check.store(current_timestamp())
RsLastCheck(t) ==
    Store(t, "rs_last_check", "rs_check",
          [health[arg[t]] EXCEPT !.last_check = now])

\* The test of record_success with > instead of >=.
RsCheckStrict(t) ==
    /\ pc[t] = "rs_check"
    /\ IF ~health[arg[t]].healthy /\ tmp[t] > config.healthy_threshold
       THEN Goto(t, "rs_set_healthy")
       ELSE Goto(t, "idle")
    /\ UNCHANGED <<health, tmp>>
    /\ HealthFrame

\* if !entry.healthy.load() && successes >= self.config.healthy_threshold
RsCheck(t) ==
    /\ pc[t] = "rs_check"
    /\ IF ~health[arg[t]].healthy /\ tmp[t] >= config.healthy_threshold
       THEN Goto(t, "rs_set_healthy")
       ELSE Goto(t, "idle")
    /\ UNCHANGED <<health, tmp>>
    /\ HealthFrame

\* entry.healthy.store(true)
RsSetHealthy(t) ==
    Store(t, "rs_set_healthy", "rs_clear_since",
          [health[arg[t]] EXCEPT !.healthy = TRUE])

\* entry.unhealthy_since.store(0)
RsClearSince(t) ==
    Store(t, "rs_clear_since", "rs_clear_successes",
          [health[arg[t]] EXCEPT !.unhealthy_since = 0])

\* entry.consecutive_successes.store(0); the guard is dropped on return.
RsClearSuccesses(t) ==
    Store(t, "rs_clear_successes", "idle",
          [health[arg[t]] EXCEPT !.consecutive_successes = 0])

\* ---- record_failure
CallRecordFailure(t) ==
    /\ \E s \in ConcServers : Call(t, s, "rf_enter")
    /\ UNCHANGED <<algVars, healthVars, proxyVars, procVars>>

\* let entry = self.servers.entry(server).or_default();
RfEntry(t) ==
    /\ pc[t] = "rf_enter"
    /\ EntryLockFree(t)
    /\ health' = Entry(health, arg[t])
    /\ Goto(t, "rf_store_successes")
    /\ UNCHANGED tmp
    /\ HealthFrame

\* entry.consecutive_successes.store(0)
RfStoreSuccesses(t) ==
    Store(t, "rf_store_successes", "rf_fetch_add",
          [health[arg[t]] EXCEPT !.consecutive_successes = 0])

\* let failures = entry.consecutive_failures.fetch_add(1) + 1;
RfFetchAdd(t) ==
    /\ pc[t] = "rf_fetch_add"
    /\ tmp' = [tmp EXCEPT ![t] = health[arg[t]].consecutive_failures + 1]
    /\ health' = [health EXCEPT ![arg[t]].consecutive_failures = @ + 1]
    /\ Goto(t, "rf_last_check")
    /\ HealthFrame

\* entry.last_check.store(current_timestamp())
RfLastCheck(t) ==
    Store(t, "rf_last_check", "rf_check",
          [health[arg[t]] EXCEPT !.last_check = now])

\* if entry.healthy.load() && failures >= self.config.unhealthy_threshold
RfCheck(t) ==
    /\ pc[t] = "rf_check"
    /\ IF health[arg[t]].healthy /\ tmp[t] >= config.unhealthy_threshold
       THEN Goto(t, "rf_set_unhealthy")
       ELSE Goto(t, "idle")
    /\ UNCHANGED <<health, tmp>>
    /\ HealthFrame

\* entry.healthy.store(false)
RfSetUnhealthy(t) ==
    Store(t, "rf_set_unhealthy", "rf_set_since",
          [health[arg[t]] EXCEPT !.healthy = FALSE])

\* entry.unhealthy_since.store(current_timestamp())
RfSetSince(t) ==
    Store(t, "rf_set_since", "rf_clear_failures",
          [health[arg[t]] EXCEPT !.unhealthy_since = now])

\* entry.consecutive_failures.store(0); the guard is dropped on return.
RfClearFailures(t) ==
    Store(t, "rf_clear_failures", "idle",
          [health[arg[t]] EXCEPT !.consecutive_failures = 0])

\* ---- mark_unhealthy
CallMarkUnhealthy(t) ==
    /\ \E s \in ConcServers : Call(t, s, "mu_enter")
    /\ UNCHANGED <<algVars, healthVars, proxyVars, procVars>>

\* if let Some(health) = self.servers.get(&server)
MuGet(t) ==
    /\ pc[t] = "mu_enter"
    /\ GetLockFree(t)
    /\ IF arg[t] \in DOMAIN health THEN Goto(t, "mu_check") ELSE Goto(t, "idle")
    /\ UNCHANGED <<health, tmp>>
    /\ HealthFrame

\* if health.healthy.load()
MuCheck(t) ==
    /\ pc[t] = "mu_check"
    /\ IF health[arg[t]].healthy
       THEN Goto(t, "mu_set_unhealthy")
       ELSE Goto(t, "idle")
    /\ UNCHANGED <<health, tmp>>
    /\ HealthFrame

\* health.healthy.store(false)
MuSetUnhealthy(t) ==
    Store(t, "mu_set_unhealthy", "mu_set_since",
          [health[arg[t]] EXCEPT !.healthy = FALSE])

\* health.unhealthy_since.store(current_timestamp())
MuSetSince(t) ==
    Store(t, "mu_set_since", "mu_clear_failures",
          [health[arg[t]] EXCEPT !.unhealthy_since = now])

\* health.consecutive_failures.store(0)
MuClearFailures(t) ==
    Store(t, "mu_clear_failures", "mu_clear_successes",
          [health[arg[t]] EXCEPT !.consecutive_failures = 0])

\* health.consecutive_successes.store(0); the guard is dropped on return.
MuClearSuccesses(t) ==
    Store(t, "mu_clear_successes", "idle",
          [health[arg[t]] EXCEPT !.consecutive_successes = 0])

\* ---- reset_server
CallResetServer(t) ==
    /\ \E s \in ConcServers : Call(t, s, "rst_enter")
    /\ UNCHANGED <<algVars, healthVars, proxyVars, procVars>>

\* if let Some(health) = self.servers.get(&server)
RstGet(t) ==
    /\ pc[t] = "rst_enter"
    /\ GetLockFree(t)
    /\ IF arg[t] \in DOMAIN health
       THEN Goto(t, "rst_set_healthy")
       ELSE Goto(t, "idle")
    /\ UNCHANGED <<health, tmp>>
    /\ HealthFrame

\* health.healthy.store(true)
RstSetHealthy(t) ==
    Store(t, "rst_set_healthy", "rst_clear_since",
          [health[arg[t]] EXCEPT !.healthy = TRUE])

\* health.unhealthy_since.store(0)
RstClearSince(t) ==
    Store(t, "rst_clear_since", "rst_clear_failures",
          [health[arg[t]] EXCEPT !.unhealthy_since = 0])

\* health.consecutive_failures.store(0)
RstClearFailures(t) ==
    Store(t, "rst_clear_failures", "rst_clear_successes",
          [health[arg[t]] EXCEPT !.consecutive_failures = 0])

\* health.consecutive_successes.store(0); the guard is dropped on return.
RstClearSuccesses(t) ==
    Store(t, "rst_clear_successes", "idle",
          [health[arg[t]] EXCEPT !.consecutive_successes = 0])

\* HealthState::with_config, before any call.
HealthConcInit ==
    /\ health = <<>>
    /\ config \in [unhealthy_threshold : Thresholds,
                   healthy_threshold : Thresholds,
                   cooldown : CooldownsMs]
    /\ now = 1
    /\ fstreak = [s \in HealthServers |-> 0]
    /\ sstreak = [s \in HealthServers |-> 0]
    /\ prior = 0

\* The calls overlap within one second of the clock.
HealthConcNext ==
    \/ \E t \in Threads : CallRegisterServer(t)
    \/ \E t \in Threads : CallRecordSuccess(t)
    \/ \E t \in Threads : RsEntry(t)
    \/ \E t \in Threads : RsStoreFailures(t)
    \/ \E t \in Threads : RsFetchAdd(t)
    \/ \E t \in Threads : RsLastCheck(t)
    \/ \E t \in Threads : RsCheck(t)
    \/ \E t \in Threads : RsSetHealthy(t)
    \/ \E t \in Threads : RsClearSince(t)
    \/ \E t \in Threads : RsClearSuccesses(t)
    \/ \E t \in Threads : CallRecordFailure(t)
    \/ \E t \in Threads : RfEntry(t)
    \/ \E t \in Threads : RfStoreSuccesses(t)
    \/ \E t \in Threads : RfFetchAdd(t)
    \/ \E t \in Threads : RfLastCheck(t)
    \/ \E t \in Threads : RfCheck(t)
    \/ \E t \in Threads : RfSetUnhealthy(t)
    \/ \E t \in Threads : RfSetSince(t)
    \/ \E t \in Threads : RfClearFailures(t)
    \/ \E t \in Threads : CallMarkUnhealthy(t)
    \/ \E t \in Threads : MuGet(t)
    \/ \E t \in Threads : MuCheck(t)
    \/ \E t \in Threads : MuSetUnhealthy(t)
    \/ \E t \in Threads : MuSetSince(t)
    \/ \E t \in Threads : MuClearFailures(t)
    \/ \E t \in Threads : MuClearSuccesses(t)
    \/ \E t \in Threads : CallResetServer(t)
    \/ \E t \in Threads : RstGet(t)
    \/ \E t \in Threads : RstSetHealthy(t)
    \/ \E t \in Threads : RstClearSince(t)
    \/ \E t \in Threads : RstClearFailures(t)
    \/ \E t \in Threads : RstClearSuccesses(t)

\* -------------------------------- the connection counters, statement by
\* statement: LeastConnections.connections and ServerHealth.active_connections.

\* Statements inside `if let Some(counter) = self.connections.get(&server)`:
\* they run under a Ref, which holds the read lock of the connections shard.
ConnectionsReadGuard == {"od_load", "od_fetch_sub"}

\* The write lock of the connections shard can be taken.
ConnEntryLockFree(t) ==
    \A u \in Threads \ {t} : pc[u] \notin ConnectionsReadGuard

\* What a statement of a LeastConnections call leaves alone.
ConnFrame ==
    UNCHANGED <<algorithm, servers, counter, hashOf, first, selected, seen, last,
                healthVars, arg, tmp, calls, raced, proxyVars, procVars>>

\* ---- LeastConnections::on_connect
CallOnConnect(t) ==
    /\ \E s \in ConcServers : Call(t, s, "oc_enter")
    /\ UNCHANGED <<algVars, healthVars, proxyVars, procVars>>

\* self.connections.entry(server).or_insert_with(..).fetch_add(1): one
\* statement, under the write lock of the shard.
OcEntryFetchAdd(t) ==
    /\ pc[t] = "oc_enter"
    /\ ConnEntryLockFree(t)
    /\ connections' = LeastConnOnConnect(connections, arg[t])
    /\ Goto(t, "idle")
    /\ ConnFrame

\* ---- LeastConnections::on_disconnect
CallOnDisconnect(t) ==
    /\ \E s \in ConcServers : Call(t, s, "od_enter")
    /\ UNCHANGED <<algVars, healthVars, proxyVars, procVars>>

\* if let Some(counter) = self.connections.get(&server); no write lock of
\* the shard outlives a statement, so the read lock is always free.
OdGet(t) ==
    /\ pc[t] = "od_enter"
    /\ IF arg[t] \in DOMAIN connections
       THEN Goto(t, "od_load")
       ELSE Goto(t, "idle")
    /\ UNCHANGED connections
    /\ ConnFrame

\* let current = counter.load(); if current > 0
OdLoad(t) ==
    /\ pc[t] = "od_load"
    /\ IF WordLess(U32Zero, connections[arg[t]])
       THEN Goto(t, "od_fetch_sub")
       ELSE Goto(t, "idle")
    /\ UNCHANGED connections
    /\ ConnFrame

\* counter.fetch_sub(1); the guard is dropped on return.
OdFetchSub(t) ==
    /\ pc[t] = "od_fetch_sub"
    /\ connections' = [connections EXCEPT ![arg[t]] = WrappingDec(@)]
    /\ Goto(t, "idle")
    /\ ConnFrame

\* ---- HealthState::increment_connections
CallIncrementConnections(t) ==
    /\ \E s \in ConcServers : Call(t, s, "ic_enter")
    /\ UNCHANGED <<algVars, healthVars, proxyVars, procVars>>

\* if let Some(health) = self.servers.get(&server)
IcGet(t) ==
    /\ pc[t] = "ic_enter"
    /\ GetLockFree(t)
    /\ IF arg[t] \in DOMAIN health
       THEN Goto(t, "ic_fetch_add")
       ELSE Goto(t, "idle")
    /\ UNCHANGED <<health, tmp>>
    /\ HealthFrame

\* health.active_connections.fetch_add(1)
IcFetchAdd(t) ==
    Store(t, "ic_fetch_add", "idle",
          [health[arg[t]] EXCEPT !.active_connections = WrappingInc(@)])

\* ---- HealthState::decrement_connections
CallDecrementConnections(t) ==
    /\ \E s \in ConcServers : Call(t, s, "dc_enter")
    /\ UNCHANGED <<algVars, healthVars, proxyVars, procVars>>

\* if let Some(health) = self.servers.get(&server)
DcGet(t) ==
    /\ pc[t] = "dc_enter"
    /\ GetLockFree(t)
    /\ IF arg[t] \in DOMAIN health THEN Goto(t, "dc_load") ELSE Goto(t, "idle")
    /\ UNCHANGED <<health, tmp>>
    /\ HealthFrame

\* let current = health.active_connections.load(); if current > 0
DcLoad(t) ==
    /\ pc[t] = "dc_load"
    /\ IF WordLess(U32Zero, health[arg[t]].active_connections)
       THEN Goto(t, "dc_fetch_sub")
       ELSE Goto(t, "idle")
    /\ UNCHANGED <<health, tmp>>
    /\ HealthFrame

\* health.active_connections.fetch_sub(1); the guard is dropped on return.
DcFetchSub(t) ==
    Store(t, "dc_fetch_sub", "idle",
          [health[arg[t]] EXCEPT !.active_connections = WrappingDec(@)])

\* LeastConnections::new over a pool of the contended server.
ConnConcInit ==
    /\ algorithm = "least_connections"
    /\ servers \in PoolsOf("least_connections", 1)
    /\ counter = UsizeZero
    /\ first = UsizeZero
    /\ connections = <<>>
    /\ hashOf = [ip \in ClientIPs |-> UsizeZero]
    /\ selected = <<>>
    /\ seen = {}
    /\ last = NoSelect

ConnConcNext ==
    \/ \E t \in Threads : CallRegisterServer(t)
    \/ \E t \in Threads : CallOnConnect(t)
    \/ \E t \in Threads : OcEntryFetchAdd(t)
    \/ \E t \in Threads : CallOnDisconnect(t)
    \/ \E t \in Threads : OdGet(t)
    \/ \E t \in Threads : OdLoad(t)
    \/ \E t \in Threads : OdFetchSub(t)
    \/ \E t \in Threads : CallIncrementConnections(t)
    \/ \E t \in Threads : IcGet(t)
    \/ \E t \in Threads : IcFetchAdd(t)
    \/ \E t \in Threads : CallDecrementConnections(t)
    \/ \E t \in Threads : DcGet(t)
    \/ \E t \in Threads : DcLoad(t)
    \/ \E t \in Threads : DcFetchSub(t)

\* ------------------------------- RoundRobin::select, statement by statement
\* What a statement of a concurrent select leaves alone.
RrFrame ==
    UNCHANGED <<algorithm, servers, connections, hashOf, first, seen, last,
                healthVars, arg, raced, proxyVars, procVars>>

\* A task calls select: `if servers.is_empty() { return None; }`
CallSelect(t) ==
    /\ pc[t] = "idle"
    /\ calls < MaxCalls
    /\ calls' = calls + 1
    /\ IF Len(servers) = 0 THEN UNCHANGED pc ELSE Goto(t, "rr_fetch_add")
    /\ UNCHANGED <<counter, selected, tmp>>
    /\ RrFrame

\* A fetch_add that loses the increment when another call holds a value.
RrFetchAddLost(t) ==
    /\ pc[t] = "rr_fetch_add"
    /\ tmp' = [tmp EXCEPT ![t] = counter]
    /\ counter' = IF \E u \in Threads \ {t} : pc[u] = "rr_index"
                  THEN counter ELSE WrappingInc(counter)
    /\ Goto(t, "rr_index")
    /\ UNCHANGED <<selected, calls>>
    /\ RrFrame

\* self.counter.fetch_add(1, Ordering::Relaxed): one atomic read-modify-write
\* that yields the previous value.
RrFetchAdd(t) ==
    /\ pc[t] = "rr_fetch_add"
    /\ tmp' = [tmp EXCEPT ![t] = counter]
    /\ counter' = WrappingInc(counter)
    /\ Goto(t, "rr_index")
    /\ UNCHANGED <<selected, calls>>
    /\ RrFrame

\* let idx = .. % servers.len(); Some(servers[idx].address)
RrReturn(t) ==
    /\ pc[t] = "rr_index"
    /\ selected' = Append(selected,
                          Some(servers[WordMod(tmp[t], Len(servers)) + 1].address))
    /\ Goto(t, "idle")
    /\ UNCHANGED <<counter, tmp, calls>>
    /\ RrFrame

\* ------------------------------------------- the connection handler task
\* One accepted client connection, from the task that handle_connection
\* spawns to its return: handle_tcp_connection or handle_http_connection.

\* What the client receives: an HTTP response, or the close of its stream.
Response(status) == [kind |-> "response", status |-> status]
Closed == [kind |-> "closed", status |-> 0]

\* The handler's steps leave the health state and the threads alone.
HandlerFrame ==
    UNCHANGED <<healthVars, concVars, procVars, protocol, backend_name>>

\* let backend_addr = router.select(backend_name, Some(client_addr))
\*     .ok_or_else(..)?   (TCP)   /   .ok_or("no backend servers available")?
\* On None the handler returns the error; its client stream is dropped.
HandlerSelect(client) ==
    /\ hpc = "accepted"
    /\ RouterSelect(backend_name, Some(client))
    /\ IF last'.result = None
       THEN /\ hpc' = "done"
            /\ result' = Some("Err")
            /\ client_got' = Append(client_got, Closed)
            /\ UNCHANGED backend_addr
       ELSE /\ hpc' = "selected"
            /\ backend_addr' = last'.result
            /\ UNCHANGED <<result, client_got>>
    /\ UNCHANGED <<dialed, copy, peers, reqpc, recorded, outcomes>>
    /\ HandlerFrame

\* router.on_connect(backend_name, backend_addr); the entry is taken under
\* the write lock of the connections shard.
HandlerOnConnect ==
    /\ hpc = "selected"
    /\ \A u \in Threads : pc[u] \notin ConnectionsReadGuard
    /\ RouterOnConnect(backend_name, backend_addr[1])
    /\ hpc' = IF protocol = "tcp" THEN "dial" ELSE "serve"
    /\ UNCHANGED <<backend_addr, dialed, client_got, result, copy, peers, reqpc,
                   recorded, outcomes>>
    /\ HandlerFrame

\* A handler that returns without notifying the router.
HandlerReturnsUnnotified ==
    /\ hpc = "disconnect"
    /\ hpc' = "done"
    /\ client_got' = Append(client_got, Closed)
    /\ UNCHANGED <<algVars, backend_addr, dialed, result, copy, peers, reqpc,
                   recorded, outcomes>>
    /\ HandlerFrame

\* router.on_disconnect(backend_name, backend_addr); the handler returns
\* `result` and its streams are dropped.
HandlerOnDisconnect ==
    /\ hpc = "disconnect"
    /\ RouterOnDisconnect(backend_name, backend_addr[1])
    /\ hpc' = "done"
    /\ client_got' = Append(client_got, Closed)
    /\ UNCHANGED <<backend_addr, dialed, result, copy, peers, reqpc, recorded,
                   outcomes>>
    /\ HandlerFrame

\* What a step of the proxying leaves alone in the router.
SessionFrame == UNCHANGED <<algVars, backend_addr>> /\ HandlerFrame

\* ---- handle_tcp_proxy
\* connect_to_backend with every failure reported as a connect error.
ConnectToBackendOneError(outcome) ==
    IF outcome = "connected" THEN "Ok" ELSE "BackendConnectError"

\* connect_to_backend: Ok(stream), or the error by what ended the wait.
ConnectToBackend(outcome) ==
    CASE outcome = "connected" -> "Ok"
      [] outcome = "refused" -> "BackendConnectError"
      [] outcome = "timeout" -> "BackendTimeout"

\* The errors a TCP session returns.
TcpProxyErrors == {"BackendConnectError", "BackendTimeout", "ProxyError"}

\* connect_to_backend(backend_addr, connect_timeout).await?
\* timeout(connect_timeout, TcpStream::connect(addr)) completes with the
\* connect's result, or with Elapsed when the connect is still pending.
TcpDial(outcome) ==
    /\ hpc = "dial"
    /\ (outcome = "timeout") <=> (peers.connect = "silent")
    /\ dialed' = Append(dialed, backend_addr[1])
    /\ IF ConnectToBackend(outcome) = "Ok"
       THEN /\ hpc' = "copy"
            /\ copy' = [c2b |-> "running", b2c |-> "running"]
            /\ peers' = [peers EXCEPT !.backend = "open"]
            /\ UNCHANGED result
       ELSE /\ hpc' = "disconnect"
            /\ result' = Some(ConnectToBackend(outcome))
            /\ UNCHANGED <<copy, peers>>
    /\ UNCHANGED <<client_got, reqpc, recorded, outcomes>>
    /\ SessionFrame

\* The client closes its connection: the proxy's next read from it is EOF.
ClientClose ==
    /\ hpc = "copy"
    /\ peers.client = "open"
    /\ peers' = [peers EXCEPT !.client = "closed"]
    /\ UNCHANGED <<hpc, dialed, client_got, result, copy, reqpc, recorded, outcomes>>
    /\ SessionFrame

\* The backend closes its connection: on its own initiative if it is of
\* that kind, or once it has seen EOF from the proxy.
BackendClose ==
    /\ hpc \in {"copy", "disconnect", "done"}
    /\ peers.backend = "open"
    /\ peers.kind = "active" \/ peers.backend_eof
    /\ peers' = [peers EXCEPT !.backend = "closed"]
    /\ UNCHANGED <<hpc, dialed, client_got, result, copy, reqpc, recorded, outcomes>>
    /\ SessionFrame

\* tokio::io::copy(&mut client_read, &mut backend_write) reads EOF: it
\* flushes the writer and completes with Ok(n).  It does not shut the writer
\* down, and backend_write stays alive until proxy_bidirectional returns.
C2bEof ==
    /\ hpc = "copy"
    /\ copy.c2b = "running"
    /\ peers.client = "closed"
    /\ copy' = [copy EXCEPT !.c2b = "done"]
    /\ UNCHANGED <<hpc, dialed, client_got, result, peers, reqpc, recorded, outcomes>>
    /\ SessionFrame

\* tokio::io::copy(&mut backend_read, &mut client_write) reads EOF.
B2cEof ==
    /\ hpc = "copy"
    /\ copy.b2c = "running"
    /\ peers.backend = "closed"
    /\ copy' = [copy EXCEPT !.b2c = "done"]
    /\ UNCHANGED <<hpc, dialed, client_got, result, peers, reqpc, recorded, outcomes>>
    /\ SessionFrame

\* A read or a write of a copy fails: the copy completes with Err(e).
CopyError(dir) ==
    /\ hpc = "copy"
    /\ copy[dir] = "running"
    /\ copy' = [copy EXCEPT ![dir] = "error"]
    /\ UNCHANGED <<hpc, dialed, client_got, result, peers, reqpc, recorded, outcomes>>
    /\ SessionFrame

\* tokio::join! returns once both copies have completed; proxy_bidirectional
\* takes each result with unwrap_or(0) and returns Ok(ProxyResult).  The
\* streams are dropped: the backend sees EOF.
Join ==
    /\ hpc = "copy"
    /\ copy.c2b # "running"
    /\ copy.b2c # "running"
    /\ result' = Some("Ok")
    /\ hpc' = "disconnect"
    /\ peers' = [peers EXCEPT !.backend_eof = TRUE]
    /\ UNCHANGED <<dialed, client_got, copy, reqpc, recorded, outcomes>>
    /\ SessionFrame

\* ---- proxy_request, the service of serve_connection
\* Status codes a backend answers with.
BackendStatuses == {200, 404, 502, 503}
\* Where a call of proxy_request ends: a failed TcpStream::connect, a failed
\* handshake, a failed send_request, or the backend's response.
Outcome(stage, status) == [stage |-> stage, status |-> status]
Outcomes ==
    {Outcome(st, 0) : st \in {"connect", "handshake", "send"}}
        \cup {Outcome("response", c) : c \in BackendStatuses}

\* proxy_request with the handshake failure answered but not recorded.
ProxyRequestUnrecordedHandshake(o) ==
    IF o.stage = "response"
    THEN [response |-> o.status, recorded |-> <<o.status>>]
    ELSE [response |-> 502,
          recorded |-> IF o.stage = "handshake" THEN <<>> ELSE <<502>>]

\* proxy_request: the response it returns in Ok(..) and the statuses it hands
\* to metrics.record_request, by the place where it ends.
ProxyRequest(o) ==
    IF o.stage = "response"
    THEN [response |-> o.status, recorded |-> <<o.status>>]
    ELSE [response |-> 502, recorded |-> <<502>>]

\* proxy_request returns at stage `stage`: hyper writes the response.
Return(o) ==
    /\ recorded' = recorded \o ProxyRequest(o).recorded
    /\ client_got' = Append(client_got, Response(ProxyRequest(o).response))
    /\ outcomes' = Append(outcomes, o)
    /\ reqpc' = "none"

\* A service that selects a backend server again for each request.
HttpRequestReselects ==
    /\ hpc = "serve"
    /\ reqpc = "none"
    /\ Len(dialed) < MaxRequests
    /\ \E client \in Clients : RouterSelect(backend_name, Some(client))
    /\ backend_addr' = last'.result
    /\ reqpc' = "connect"
    /\ UNCHANGED <<hpc, dialed, client_got, result, copy, peers, recorded, outcomes>>
    /\ HandlerFrame

\* serve_connection reads a request and calls the service.
HttpRequest ==
    /\ hpc = "serve"
    /\ reqpc = "none"
    /\ Len(dialed) < MaxRequests
    /\ reqpc' = "connect"
    /\ UNCHANGED <<hpc, dialed, client_got, result, copy, peers, recorded, outcomes>>
    /\ SessionFrame

\* TcpStream::connect(ctx.backend_addr).await: the call awaits the connect
\* itself, and resumes when the connect completes.
ReqConnect(ok) ==
    /\ hpc = "serve"
    /\ reqpc = "connect"
    /\ peers.connect = "answers"
    /\ dialed' = Append(dialed, backend_addr[1])
    /\ IF ok
       THEN /\ reqpc' = "handshake"
            /\ UNCHANGED <<client_got, recorded, outcomes>>
       ELSE Return(Outcome("connect", 0))
    /\ UNCHANGED <<hpc, result, copy, peers>>
    /\ SessionFrame

\* hyper::client::conn::http1::handshake(io).await
ReqHandshake(ok) ==
    /\ hpc = "serve"
    /\ reqpc = "handshake"
    /\ IF ok
       THEN /\ reqpc' = "send"
            /\ UNCHANGED <<client_got, recorded, outcomes>>
       ELSE Return(Outcome("handshake", 0))
    /\ UNCHANGED <<hpc, dialed, result, copy, peers>>
    /\ SessionFrame

\* sender.send_request(req).await, and the conversion of the response.
ReqSend(o) ==
    /\ hpc = "serve"
    /\ reqpc = "send"
    /\ o.stage \in {"send", "response"}
    /\ Return(o)
    /\ UNCHANGED <<hpc, dialed, result, copy, peers>>
    /\ SessionFrame

\* serve_connection completes: the client closed the connection or an I/O
\* or protocol error ended it.  A call of the service still in flight is
\* dropped where it awaits.
ServeConnectionEnds(res) ==
    /\ hpc = "serve"
    /\ hpc' = "disconnect"
    /\ reqpc' = "none"
    /\ result' = Some(res)
    /\ UNCHANGED <<dialed, client_got, copy, peers, recorded, outcomes>>
    /\ SessionFrame

\* ---- one connection
Protocols == {"tcp", "http"}
BackendKinds == {"active", "waits_for_eof"}
\* A connect to the backend completes (accepted or refused), or the backend
\* host drops the SYN and the connect stays pending.
ConnectKinds == {"answers", "silent"}

\* The task has been spawned for a client of a frontend.
HandlerInit ==
    /\ protocol \in Protocols
    /\ backend_name \in BackendNames
    /\ hpc = "accepted"
    /\ backend_addr = None
    /\ dialed = <<>>
    /\ client_got = <<>>
    /\ result = None
    /\ copy = [c2b |-> "none", b2c |-> "none"]
    /\ peers \in [client : {"open"}, backend : {"none"}, kind : BackendKinds,
                  backend_eof : {FALSE}, connect : ConnectKinds]
    /\ reqpc = "none"
    /\ recorded = <<>>
    /\ outcomes = <<>>

\* The steps the runtime takes as soon as they are possible.
HandlerSteps ==
    \/ \E client \in Clients : HandlerSelect(client)
    \/ HandlerOnConnect
    \/ C2bEof
    \/ B2cEof
    \/ Join
    \/ HandlerOnDisconnect

\* The awaited connects: each resumes its caller when it completes.
ConnectSteps ==
    \/ \E outcome \in {"connected", "refused", "timeout"} : TcpDial(outcome)
    \/ \E ok \in BOOLEAN : ReqConnect(ok)

\* ------------------------------- the handler tasks of the other connections
\* Each accepted connection runs handle_tcp_connection or
\* handle_http_connection in a task of its own, on the shared router. A task
\* of another connection is followed through its router calls only; its
\* on_disconnect runs statement by statement.

\* Positions of a handler task from the return of router.on_connect to the
\* fetch_sub of router.on_disconnect.
InSession == {"task_proxying", "od_enter", "od_load", "od_fetch_sub"}

\* Positions of the connection handler from the return of router.on_connect
\* to its call of router.on_disconnect.
HandlerInSession == {"dial", "copy", "serve", "disconnect"}

\* What a step of another task leaves alone.
PeerFrame == UNCHANGED <<healthVars, tmp, raced, proxyVars, procVars>>

\* router.select(backend_name, Some(client_addr)), with `?` on None; one
\* connection for each task.
PeerSelect(t, client) ==
    /\ pc[t] = "idle"
    /\ calls < Cardinality(Threads)
    /\ calls' = calls + 1
    /\ RouterSelect(backend_name, Some(client))
    /\ IF last'.result = None
       THEN UNCHANGED <<pc, arg>>
       ELSE /\ arg' = [arg EXCEPT ![t] = last'.result[1]]
            /\ Goto(t, "task_selected")
    /\ PeerFrame

\* router.on_connect(backend_name, backend_addr)
PeerOnConnect(t) ==
    /\ pc[t] = "task_selected"
    /\ ConnEntryLockFree(t)
    /\ RouterOnConnect(backend_name, arg[t])
    /\ Goto(t, "task_proxying")
    /\ UNCHANGED <<arg, calls>>
    /\ PeerFrame

\* handle_tcp_proxy or serve_connection returns, with Ok or with an error:
\* the next statement is router.on_disconnect(backend_name, backend_addr).
PeerProxyEnds(t, res) ==
    /\ pc[t] = "task_proxying"
    /\ res \in {"Ok", "Err"}
    /\ Goto(t, "od_enter")
    /\ UNCHANGED <<algVars, arg, calls>>
    /\ PeerFrame

\* ---------------------------------------------------------- validate_config
\* Strings whose letters matter are sequences of characters.
Upper == <<"A", "B", "C", "D", "E", "F", "G", "H", "I", "J", "K", "L", "M",
           "N", "O", "P", "Q", "R", "S", "T", "U", "V", "W", "X", "Y", "Z">>
Lower == <<"a", "b", "c", "d", "e", "f", "g", "h", "i", "j", "k", "l", "m",
           "n", "o", "p", "q", "r", "s", "t", "u", "v", "w", "x", "y", "z">>

\* str::to_lowercase
ToLowercase(str) ==
    [i \in 1..Len(str) |->
        IF \E k \in 1..Len(Upper) : Upper[k] = str[i]
        THEN Lower[CHOOSE k \in 1..Len(Upper) : Upper[k] = str[i]]
        ELSE str[i]]

\* let valid_levels = ["trace", "debug", "info", "warn", "error"];
ValidLevels ==
    {<<"t", "r", "a", "c", "e">>, <<"d", "e", "b", "u", "g">>,
     <<"i", "n", "f", "o">>, <<"w", "a", "r", "n">>,
     <<"e", "r", "r", "o", "r">>}

\* Log levels a configuration file may give.
LogLevels ==
    {<<"i", "n", "f", "o">>, <<"I", "N", "F", "O">>,
     <<"v", "e", "r", "b", "o", "s", "e">>}

\* FrontendConfig: name, listen address and the backend it names.
FrontendConfigs ==
    [name : {"", "web"}, listen : {8080, 8081}, backend : {"p", "q"}]

\* HealthCheckConfig: check_type and path.
HealthChecks ==
    {None, Some([check_type |-> "tcp", path |-> None]),
     Some([check_type |-> "http", path |-> None]),
     Some([check_type |-> "http", path |-> Some("/health")])}

\* BackendConfig: name, the weights of its servers, health_check.
BackendConfigs ==
    [name : {"", "p"}, servers : {<<>>, <<1>>, <<1, 0>>},
     health_check : HealthChecks]

\* Sequences over S of length n.
SeqsOf(S, n) == [1..n -> S]

\* Configurations of nf frontends and nb backends.
ConfigsOf(nf, nb) ==
    [frontends : SeqsOf(FrontendConfigs, nf),
     backends : SeqsOf(BackendConfigs, nb),
     log_level : LogLevels]

\* tests::minimal_config
MinimalConfig ==
    [frontends |-> <<[name |-> "web", listen |-> 8080, backend |-> "p"]>>,
     backends |-> <<[name |-> "p", servers |-> <<1>>, health_check |-> None]>>,
     log_level |-> <<"i", "n", "f", "o">>]

\* `for frontend in &config.frontends`, from entry i on: the messages
\* pushed, with the names and the listen addresses inserted so far.
RECURSIVE FrontendErrors(_, _, _, _, _)
FrontendErrors(fs, i, backend_names, frontend_names, listen_addresses) ==
    IF i > Len(fs) THEN <<>>
    ELSE LET f == fs[i]
         IN  (IF f.name = "" THEN <<"frontend name cannot be empty">> ELSE <<>>)
             \o (IF f.name \in frontend_names
                 THEN <<"duplicate frontend name">> ELSE <<>>)
             \o (IF f.listen \in listen_addresses
                 THEN <<"duplicate listen address">> ELSE <<>>)
             \o (IF f.backend \notin backend_names
                 THEN <<"references non-existent backend">> ELSE <<>>)
             \o FrontendErrors(fs, i + 1, backend_names,
                               frontend_names \cup {f.name},
                               listen_addresses \cup {f.listen})

\* `for server in &backend.servers`
RECURSIVE WeightErrors(_)
WeightErrors(ws) ==
    IF ws = <<>> THEN <<>>
    ELSE (IF Head(ws) = 0 THEN <<"has weight 0">> ELSE <<>>)
         \o WeightErrors(Tail(ws))

\* `for backend in &config.backends`, from entry i on.
RECURSIVE BackendErrors(_, _)
BackendErrors(bs, i) ==
    IF i > Len(bs) THEN <<>>
    ELSE LET b == bs[i]
         IN  (IF b.name = "" THEN <<"backend name cannot be empty">> ELSE <<>>)
             \o (IF b.servers = <<>>
                 THEN <<"must have at least one server">> ELSE <<>>)
             \o WeightErrors(b.servers)
             \o (IF b.health_check # None
                    /\ b.health_check[1].check_type = "http"
                    /\ b.health_check[1].path = None
                 THEN <<"HTTP health check but no path">> ELSE <<>>)
             \o BackendErrors(bs, i + 1)

\* validate_config: the messages of `errors`; Ok(()) when there is none,
\* Err(errors.join("; ")) otherwise.
ValidateConfig(c) ==
    LET backend_names == {c.backends[i].name : i \in 1..Len(c.backends)}
        errors ==
            (IF c.frontends = <<>>
             THEN <<"at least one frontend must be defined">> ELSE <<>>)
            \o (IF c.backends = <<>>
                THEN <<"at least one backend must be defined">> ELSE <<>>)
            \o (IF Cardinality(backend_names) # Len(c.backends)
                THEN <<"duplicate backend names detected">> ELSE <<>>)
            \o FrontendErrors(c.frontends, 1, backend_names, {}, {})
            \o BackendErrors(c.backends, 1)
            \o (IF ToLowercase(c.log_level) \notin ValidLevels
                THEN <<"invalid log level">> ELSE <<>>)
    IN  [ok |-> errors = <<>>, errors |-> errors]

\* A caller validates the configuration it holds.
Validate ==
    /\ verdict = None
    /\ verdict' = Some(ValidateConfig(new_config))
    /\ UNCHANGED <<shutdown_sent, checks_empty, loops, started, accept_errors,
                   main_pc, join_idx, handlers, deadline_passed, aborted,
                   new_config, reloads, callbacks, value, ctx, substituted>>
    /\ UNCHANGED <<algVars, healthVars, concVars, proxyVars, ridVars>>
    /\ UNCHANGED <<checkVars, metricVars, routeVars>>

\* ------------------------------------------------------------ ConfigWatcher
\* What try_reload finds at config_path.
File(kind, c) == [kind |-> kind, config |-> c]
Files ==
    {File("unreadable", MinimalConfig), File("bad_yaml", MinimalConfig),
     File("config", MinimalConfig),
     File("config", [MinimalConfig EXCEPT !.frontends = <<>>]),
     File("config", [MinimalConfig EXCEPT !.backends[1].servers = <<1, 0>>]),
     File("config", [MinimalConfig EXCEPT !.log_level = <<"d", "e", "b", "u", "g">>])}

\* load_config: read_to_string, serde_yaml::from_str, validate_config.
LoadConfig(file) ==
    IF file.kind = "unreadable" THEN [ok |-> FALSE, error |-> "IoError"]
    ELSE IF file.kind = "bad_yaml" THEN [ok |-> FALSE, error |-> "ParseError"]
    ELSE IF ~ValidateConfig(file.config).ok
         THEN [ok |-> FALSE, error |-> "ValidationError"]
    ELSE [ok |-> TRUE, config |-> file.config]

\* try_reload invoking the callback with whatever parses.
TryReloadUnvalidated(file) ==
    IF file.kind = "config" THEN Some(file.config) ELSE None

\* try_reload: the configuration the callback is invoked with, if any.
TryReload(file) ==
    LET loaded == LoadConfig(file)
    IN  IF ~loaded.ok THEN None
        ELSE IF ~ValidateConfig(loaded.config).ok THEN None
        ELSE Some(loaded.config)

\* What a step of a long-running task leaves alone.
TaskFrame ==
    /\ UNCHANGED <<algVars, concVars, proxyVars>>
    /\ UNCHANGED <<checks_empty, new_config, verdict, value, ctx, substituted>>
    /\ UNCHANGED ridVars

\* What a step that is neither a probe's nor a connection's leaves alone.
LoopFrame ==
    TaskFrame /\ UNCHANGED <<healthVars, checkVars, metricVars, routeVars>>

\* The watcher's loop takes a file event that should_reload accepts, or a
\* SIGHUP, and calls try_reload.
WatcherReload(file) ==
    /\ loops["watcher"] = "running"
    /\ main_pc # "exited"
    /\ Len(reloads) < MaxReloads
    /\ reloads' = Append(reloads, file)
    /\ callbacks' = callbacks \o TryReload(file)
    /\ UNCHANGED <<shutdown_sent, loops, started, accept_errors, main_pc,
                   join_idx, handlers, deadline_passed, aborted>>
    /\ LoopFrame

\* A loop's select! takes the branch of shutdown.recv() and breaks; the
\* idle modes await shutdown.recv() and return.
ObserveShutdown(l) ==
    /\ loops[l] = "running"
    /\ main_pc # "exited"
    /\ shutdown_sent
    /\ loops' = [loops EXCEPT ![l] = "returned"]
    /\ UNCHANGED <<shutdown_sent, started, accept_errors, main_pc, join_idx,
                   handlers, deadline_passed, aborted, reloads, callbacks>>
    /\ LoopFrame

\* ----------------------------------------------------- FrontendListener::run
\* An accept loop whose accept error ends it.
ListenerAfterAcceptErrorEnds(res) ==
    IF res = "error" THEN "returned" ELSE "running"

\* The accept branch of the loop: Ok calls handle_connection, Err logs; the
\* loop goes on in both cases.
ListenerAfterAccept(res) ==
    IF res = "error" THEN "running" ELSE "running"

\* MetricsCollector::connection_opened on the gauge of the pair.
ConnectionOpened(g) == g + 1

\* MetricsCollector::connection_closed on the gauge of the pair.
ConnectionClosed(g) == g - 1

\* A handler task that records the close only when the handler returned Ok.
HandlerTaskEndOkOnly(g, res) == IF res = "ok" THEN ConnectionClosed(g) ELSE g

\* The end of the spawned task: after the handler has returned, with Ok or
\* with any error, metrics.connection_closed is called.
HandlerTaskEnd(g, res) == ConnectionClosed(g)

\* How a connection handler returns: Err from a failed selection, Ok, or
\* Err from the session.
HandlerResults == {"select_failed", "ok", "error"}

\* self.listener.accept() completes; handle_connection records the opened
\* connection and spawns the handler.
ListenerAccept(l, res) ==
    /\ l \in Listeners
    /\ loops[l] = "running"
    /\ main_pc # "exited"
    /\ IF res = "ok"
       THEN /\ started[l] < MaxAccepts
            /\ started' = [started EXCEPT ![l] = @ + 1]
            /\ gauge' = [gauge EXCEPT ![l] = ConnectionOpened(@)]
            /\ handlers' = handlers + 1
            /\ UNCHANGED accept_errors
       ELSE /\ accept_errors < MaxAccepts
            /\ accept_errors' = accept_errors + 1
            /\ UNCHANGED <<started, handlers, gauge>>
    /\ loops' = [loops EXCEPT ![l] = ListenerAfterAccept(res)]
    /\ UNCHANGED <<shutdown_sent, main_pc, join_idx, deadline_passed, aborted,
                   reloads, callbacks, ended, healthVars, checkVars,
                   routeVars>>
    /\ TaskFrame

\* A connection handler task completes.
HandlerEnds ==
    /\ handlers > 0
    /\ main_pc # "exited"
    /\ handlers' = handlers - 1
    /\ \E l \in Listeners, res \in HandlerResults :
          /\ ended[l] < started[l]
          /\ ended' = [ended EXCEPT ![l] = @ + 1]
          /\ gauge' = [gauge EXCEPT ![l] = HandlerTaskEnd(@, res)]
    /\ UNCHANGED <<shutdown_sent, loops, started, accept_errors, main_pc,
                   join_idx, deadline_passed, aborted, reloads, callbacks,
                   healthVars, checkVars, routeVars>>
    /\ TaskFrame

\* -------------------------------------------------------- HealthChecker::run
\* default_health_interval, in seconds.
DefaultInterval == 10

\* HealthCheckConfig; `timeout` shows in how a probe's waits end.
HealthCheck(type, expected_status, interval) ==
    [check_type |-> type, expected_status |-> expected_status,
     interval |-> interval]

\* Backends with a health check: a server listed in two backends, with
\* different checks and intervals; and two servers under one check.
CheckedBackends ==
    <<[name |-> "p", servers |-> <<1>>,
       health_check |-> Some(HealthCheck("http", 200, Some(30)))],
      [name |-> "q", servers |-> <<1>>,
       health_check |-> Some(HealthCheck("tcp", 200, Some(5)))]>>
TwoServerBackends ==
    <<[name |-> "p", servers |-> <<1, 2>>,
       health_check |-> Some(HealthCheck("tcp", 200, None))],
      [name |-> "q", servers |-> <<3>>, health_check |-> None]>>

\* Backends without any health check.
UncheckedBackends ==
    <<[name |-> "p", servers |-> <<1>>, health_check |-> None]>>

\* The checks of one backend: one for each of its servers.
ChecksOf(backend) ==
    IF backend.health_check = None THEN <<>>
    ELSE LET check == backend.health_check[1]
         IN  [i \in 1..Len(backend.servers) |->
                [server |-> backend.servers[i],
                 config |-> check,
                 interval |-> IF check.interval = None THEN DefaultInterval
                              ELSE check.interval[1]]]

\* `checks`: filter_map over the backends, flattened.
RECURSIVE Checks(_)
Checks(b) == IF b = <<>> THEN <<>> ELSE ChecksOf(Head(b)) \o Checks(Tail(b))

\* A period that is the interval of the first check.
MinIntervalFirst(checks) ==
    IF checks = <<>> THEN DefaultInterval ELSE checks[1].interval

\* checks.iter().map(|(_, _, i)| *i).min().unwrap_or(self.default_interval)
MinInterval(checks) ==
    IF checks = <<>> THEN DefaultInterval
    ELSE CHOOSE m \in {checks[i].interval : i \in 1..Len(checks)} :
            \A i \in 1..Len(checks) : m <= checks[i].interval

\* ---- the probes
Whitespace == {" ", "\t", "\r", "\n"}

\* str::split_whitespace, collected: the maximal runs of other characters.
RECURSIVE SplitFrom(_, _, _, _)
SplitFrom(str, i, word, parts) ==
    IF i > Len(str)
    THEN IF word = <<>> THEN parts ELSE Append(parts, word)
    ELSE IF str[i] \in Whitespace
         THEN SplitFrom(str, i + 1, <<>>,
                        IF word = <<>> THEN parts ELSE Append(parts, word))
         ELSE SplitFrom(str, i + 1, Append(word, str[i]), parts)

SplitWhitespace(str) == SplitFrom(str, 1, <<>>, <<>>)

DecimalDigits == <<"0", "1", "2", "3", "4", "5", "6", "7", "8", "9">>

\* The decimal digits from position i on, added to acc: None on a character
\* that is no digit and on a value above u16::MAX.
RECURSIVE ParseDigits(_, _, _)
ParseDigits(str, i, acc) ==
    IF i > Len(str) THEN Some(acc)
    ELSE IF \A d \in 1..10 : DecimalDigits[d] # str[i] THEN None
    ELSE LET d == CHOOSE d \in 1..10 : DecimalDigits[d] = str[i]
             n == acc * 10 + (d - 1)
         IN  IF n > Limb - 1 THEN None ELSE ParseDigits(str, i + 1, n)

\* str::parse::<u16>: an optional `+`, then one digit or more.
ParseU16(str) ==
    IF str = <<>> THEN None
    ELSE IF str[1] = "+"
         THEN IF Len(str) = 1 THEN None ELSE ParseDigits(str, 2, 0)
         ELSE ParseDigits(str, 1, 0)

\* parse_http_status: None for Err.
ParseHttpStatus(response) ==
    LET parts == SplitWhitespace(response)
    IN  IF Len(parts) < 2 THEN None ELSE ParseU16(parts[2])

\* How the waits of a probe end: the connect, the write_all, the read and
\* the bytes the read returned.
Run(connect, write, read, response) ==
    [connect |-> connect, write |-> write, read |-> read, response |-> response]

Proto == <<"H", "T", "T", "P", "/", "1", ".", "1">>

\* What one read of at most 1024 bytes returns of a response: all of a short
\* response, or the part that has arrived.
HttpResponses ==
    {Proto \o <<" ", "2", "0", "0", " ", "O", "K", "\r", "\n">>,
     Proto \o <<" ", "4", "0", "4", " ", "N", "o", "\r", "\n">>,
     Proto \o <<" ", "2", "0">>,
     Proto,
     Proto \o <<" ", "O", "K">>,
     Proto \o <<" ", "7", "0", "2", "0", "0", " ", "X">>,
     <<"\r", "\n">> \o Proto \o <<"\t", "0", "2", "0", "0", " ", "O", "K">>}

\* A TCP check ends with its connect.
TcpRuns ==
    {Run(c, "none", "none", <<>>) : c \in {"connected", "refused", "timeout"}}

HttpRuns ==
    {Run("refused", "none", "none", <<>>), Run("timeout", "none", "none", <<>>),
     Run("connected", "failed", "none", <<>>),
     Run("connected", "ok", "empty", <<>>),
     Run("connected", "ok", "failed", <<>>),
     Run("connected", "ok", "timeout", <<>>)}
      \cup {Run("connected", "ok", "data", r) : r \in HttpResponses}

ProbeRuns == TcpRuns \cup HttpRuns

\* The runs a check of the type can have.
RunsOf(check) == IF check.check_type = "tcp" THEN TcpRuns ELSE HttpRuns

\* tcp_health_check
TcpHealthCheck(run) == IF run.connect = "connected" THEN "Ok" ELSE "Err"

\* An HTTP check that passes on any status it can parse.
HttpHealthCheckAnyStatus(run, expected_status) ==
    IF run.connect # "connected" THEN "Err"
    ELSE IF run.write # "ok" THEN "Err"
    ELSE IF run.read # "data" \/ Len(run.response) = 0 THEN "Err"
    ELSE IF ParseHttpStatus(run.response) = None THEN "Err" ELSE "Ok"

\* http_health_check
HttpHealthCheck(run, expected_status) ==
    IF run.connect # "connected" THEN "Err"
    ELSE IF run.write # "ok" THEN "Err"
    ELSE IF run.read # "data" \/ Len(run.response) = 0 THEN "Err"
    ELSE LET status == ParseHttpStatus(run.response)
         IN  IF status = None THEN "Err"
             ELSE IF status[1] = expected_status THEN "Ok" ELSE "Err"

\* perform_health_check
PerformHealthCheck(check, run) ==
    IF check.check_type = "tcp" THEN TcpHealthCheck(run)
    ELSE HttpHealthCheck(run, check.expected_status)

\* The servers of the checks from i on, registered.
RECURSIVE RegisterAll(_, _, _)
RegisterAll(h, checks, i) ==
    IF i > Len(checks) THEN h
    ELSE RegisterAll(Entry(h, checks[i].server), checks, i + 1)

\* run, before its loop, with checks configured: every server is registered
\* and the timer is created.
CheckerStart ==
    /\ loops["checker"] = "running"
    /\ main_pc # "exited"
    /\ ~checks_empty
    /\ tick_period = None
    /\ health' = RegisterAll(health, Checks(backends), 1)
    /\ tick_period' = Some(MinInterval(Checks(backends)))
    /\ UNCHANGED <<config, now, fstreak, sstreak, prior>>
    /\ UNCHANGED <<shutdown_sent, loops, started, accept_errors, main_pc,
                   join_idx, handlers, deadline_passed, aborted, reloads,
                   callbacks, backends, probes, last_probe, metricVars,
                   routeVars>>
    /\ TaskFrame

\* check_interval.tick(): a probe task is spawned for every check.
CheckerTick ==
    /\ loops["checker"] = "running"
    /\ main_pc # "exited"
    /\ ~checks_empty
    /\ tick_period # None
    /\ started["checker"] < MaxAccepts
    /\ started' = [started EXCEPT !["checker"] = @ + 1]
    /\ probes' = probes \o [i \in 1..Len(Checks(backends)) |->
                              [server |-> Checks(backends)[i].server,
                               config |-> Checks(backends)[i].config,
                               tick |-> started["checker"] + 1,
                               signals |-> 0]]
    /\ UNCHANGED <<shutdown_sent, loops, accept_errors, main_pc, join_idx,
                   handlers, deadline_passed, aborted, reloads, callbacks,
                   backends, tick_period, last_probe, healthVars, metricVars,
                   routeVars>>
    /\ TaskFrame

\* A probe task runs to its end: perform_health_check returns and the task
\* calls record_success or record_failure.
ProbeCompletes(i, run) ==
    /\ i \in 1..Len(probes)
    /\ probes[i].signals = 0
    /\ run \in RunsOf(probes[i].config)
    /\ main_pc # "exited"
    /\ LET s == probes[i].server
           res == PerformHealthCheck(probes[i].config, run)
       IN  /\ health' = [Entry(health, s) EXCEPT
                           ![s] = IF res = "Ok"
                                  THEN RecordSuccessRec(@, config, now)
                                  ELSE RecordFailureRec(@, config, now, now)]
           /\ last_probe' = Some([probe |-> i, run |-> run,
                                  signal |-> IF res = "Ok" THEN "record_success"
                                             ELSE "record_failure"])
           /\ sstreak' = [sstreak EXCEPT ![s] = IF res = "Ok" THEN @ + 1 ELSE 0]
           /\ fstreak' = [fstreak EXCEPT ![s] = IF res = "Ok" THEN 0 ELSE @ + 1]
           /\ prior' = IF res # "Ok" THEN prior
                       ELSE IF Entry(health, s)[s].consecutive_failures > 0
                            THEN s ELSE 0
    /\ probes' = [probes EXCEPT ![i].signals = @ + 1]
    /\ UNCHANGED <<config, now>>
    /\ UNCHANGED <<shutdown_sent, loops, started, accept_errors, main_pc,
                   join_idx, handlers, deadline_passed, aborted, reloads,
                   callbacks, backends, tick_period, metricVars, routeVars>>
    /\ TaskFrame

\* ------------------------------------------------------------------ run_async
\* tokio::signal::ctrl_c() completes (Ok or Err): shutdown_tx.send(()), and
\* the 30 s sleep is created.
CtrlC ==
    /\ main_pc = "waiting"
    /\ shutdown_sent' = TRUE
    /\ main_pc' = "joining"
    /\ UNCHANGED <<loops, started, accept_errors, join_idx, handlers,
                   deadline_passed, aborted, reloads, callbacks>>
    /\ LoopFrame

\* The sleep of shutdown_timeout elapses.
DeadlineElapses ==
    /\ main_pc = "joining"
    /\ ~deadline_passed
    /\ deadline_passed' = TRUE
    /\ UNCHANGED <<shutdown_sent, loops, started, accept_errors, main_pc,
                   join_idx, handlers, aborted, reloads, callbacks>>
    /\ LoopFrame

\* select! { result = handle => .. }: the awaited task has returned.
JoinHandle ==
    /\ main_pc = "joining"
    /\ join_idx <= Len(Handles)
    /\ loops[Handles[join_idx]] = "returned"
    /\ join_idx' = join_idx + 1
    /\ UNCHANGED <<shutdown_sent, loops, started, accept_errors, main_pc,
                   handlers, deadline_passed, aborted, reloads, callbacks>>
    /\ LoopFrame

\* select! { _ = &mut shutdown_deadline => break }
JoinDeadline ==
    /\ main_pc = "joining"
    /\ join_idx <= Len(Handles)
    /\ deadline_passed
    /\ join_idx' = Len(Handles) + 1
    /\ UNCHANGED <<shutdown_sent, loops, started, accept_errors, main_pc,
                   handlers, deadline_passed, aborted, reloads, callbacks>>
    /\ LoopFrame

\* run_async returns Ok(()); block_on returns and the runtime is dropped:
\* every task still alive is dropped where it awaits.
Exit ==
    /\ main_pc = "joining"
    /\ join_idx > Len(Handles)
    /\ main_pc' = "exited"
    /\ aborted' = handlers
    /\ handlers' = 0
    /\ UNCHANGED <<shutdown_sent, loops, started, accept_errors, join_idx,
                   deadline_passed, reloads, callbacks>>
    /\ LoopFrame

\* ------------------------------------------------------ substitute_variables
\* A header value is a sequence of tokens: the four variables, a `$` token
\* that names no variable, and plain text.
Variables == {"$client_ip", "$client_port", "$backend_name", "$backend_addr"}
Tokens == Variables \cup {"$request_id", "text"}

\* Backend names of a configuration: plain, or holding the text of a
\* variable.
CtxBackendNames == {<<"web-servers">>, <<"$backend_addr">>, <<"$client_ip">>}

\* str::replace(from, to): every occurrence of the token, left to right.
RECURSIVE Replace(_, _, _)
Replace(str, from, to) ==
    IF str = <<>> THEN <<>>
    ELSE (IF Head(str) = from THEN to ELSE <<Head(str)>>)
         \o Replace(Tail(str), from, to)

\* substitute_variables: four replace calls, each on the result of the one
\* before.
SubstituteVariables(v, c) ==
    Replace(Replace(Replace(Replace(v, "$client_ip", c.client_ip),
                            "$client_port", c.client_port),
                    "$backend_name", c.backend_name),
            "$backend_addr", c.backend_addr)

\* add_request_headers / add_response_headers substitute a configured value.
Substitute ==
    /\ substituted = None
    /\ substituted' = Some(SubstituteVariables(value, ctx))
    /\ UNCHANGED <<shutdown_sent, checks_empty, loops, started, accept_errors,
                   main_pc, join_idx, handlers, deadline_passed, aborted,
                   new_config, verdict, reloads, callbacks, value, ctx>>
    /\ UNCHANGED <<algVars, healthVars, concVars, proxyVars, ridVars>>
    /\ UNCHANGED <<checkVars, metricVars, routeVars>>

\* -------------------------------------------------- generate_short_request_id
HexDigits == <<"0", "1", "2", "3", "4", "5", "6", "7",
               "8", "9", "a", "b", "c", "d", "e", "f">>

\* The four hex digits of a 16-bit limb, most significant first.
LimbHex(l) ==
    <<HexDigits[(l \div 4096) + 1], HexDigits[((l \div 256) % 16) + 1],
      HexDigits[((l \div 16) % 16) + 1], HexDigits[(l % 16) + 1]>>

\* format!("req-{:016x}", count) for a u64.
FormatShort(w) ==
    <<"r", "e", "q", "-">>
        \o LimbHex(w[4]) \o LimbHex(w[3]) \o LimbHex(w[2]) \o LimbHex(w[1])

\* A read of the counter in place of fetch_add.
FetchAddNone(w) == [previous |-> w, stored |-> w]

\* REQUEST_COUNTER.fetch_add(1, Ordering::Relaxed): one atomic step.
FetchAdd(w) == [previous |-> w, stored |-> WrappingInc(w)]

\* Values of the counter when observation starts: a new process, and one
\* that has handed out 2^16 - 2 ids.
RequestCounterStarts == {UsizeZero, ToWord(Limb - 2, 4)}

\* What a step of generate_short_request_id leaves alone.
RidFrame ==
    /\ UNCHANGED <<shutdown_sent, checks_empty, loops, started, accept_errors,
                   main_pc, join_idx, handlers, deadline_passed, aborted,
                   new_config, verdict, reloads, callbacks, value, ctx,
                   substituted>>
    /\ UNCHANGED <<algVars, healthVars, concVars, proxyVars>>
    /\ UNCHANGED <<checkVars, metricVars, routeVars>>

\* let count = REQUEST_COUNTER.fetch_add(1, Ordering::Relaxed);
RidFetchAdd(t) ==
    /\ rid_pc[t] = "idle"
    /\ Len(ids) + Cardinality({u \in Threads : rid_pc[u] = "format"}) < MaxCalls
    /\ count' = [count EXCEPT ![t] = FetchAdd(REQUEST_COUNTER).previous]
    /\ REQUEST_COUNTER' = FetchAdd(REQUEST_COUNTER).stored
    /\ rid_pc' = [rid_pc EXCEPT ![t] = "format"]
    /\ UNCHANGED ids
    /\ RidFrame

\* format!("req-{:016x}", count)
RidFormat(t) ==
    /\ rid_pc[t] = "format"
    /\ ids' = Append(ids, FormatShort(count[t]))
    /\ rid_pc' = [rid_pc EXCEPT ![t] = "idle"]
    /\ UNCHANGED <<REQUEST_COUNTER, count>>
    /\ RidFrame

\* ---------------------------------------------------------- specifications
\* A router with no pool, for the runs that exercise HealthState alone.
AlgIdle ==
    /\ algorithm = "round_robin"
    /\ servers = <<>>
    /\ counter = UsizeZero
    /\ first = UsizeZero
    /\ connections = <<>>
    /\ hashOf = [ip \in ClientIPs |-> UsizeZero]
    /\ selected = <<>>
    /\ seen = {}
    /\ last = NoSelect

\* A HealthState that is not used, for the runs that exercise the router.
HealthIdle ==
    /\ health = <<>>
    /\ config = [unhealthy_threshold |-> 3, healthy_threshold |-> 2,
                 cooldown |-> 30000]
    /\ now = 1
    /\ fstreak = [s \in HealthServers |-> 0]
    /\ sstreak = [s \in HealthServers |-> 0]
    /\ prior = 0

\* Every thread between calls.
ConcIdle ==
    /\ pc = [t \in Threads |-> "idle"]
    /\ arg = [t \in Threads |-> 1]
    /\ tmp = [t \in Threads |-> 0]
    /\ calls = 0
    /\ raced = FALSE

\* A listener with no connection.
ProxyIdle ==
    /\ protocol = "tcp"
    /\ backend_name = PoolName
    /\ hpc = "done"
    /\ backend_addr = None
    /\ dialed = <<>>
    /\ client_got = <<>>
    /\ result = None
    /\ copy = [c2b |-> "none", b2c |-> "none"]
    /\ peers = [client |-> "open", backend |-> "none", kind |-> "active",
                backend_eof |-> FALSE, connect |-> "answers"]
    /\ reqpc = "none"
    /\ recorded = <<>>
    /\ outcomes = <<>>

\* No probe has been spawned and no connection accepted.
ProbesIdle ==
    /\ tick_period = None
    /\ probes = <<>>
    /\ last_probe = None
    /\ gauge = [l \in Listeners |-> 0]
    /\ ended = [l \in Listeners |-> 0]

\* The router as built for the one frontend of the pool, not yet called.
RouteIdle ==
    /\ frontends = <<Frontend(PoolName, algorithm)>>
    /\ via = <<>>

\* The tasks as run_async has started them, before any signal.
TasksStarted ==
    /\ ProbesIdle
    /\ shutdown_sent = FALSE
    /\ loops = [l \in Loops |-> "running"]
    /\ started = [l \in Loops |-> 0]
    /\ accept_errors = 0
    /\ main_pc = "waiting"
    /\ join_idx = 1
    /\ handlers = 0
    /\ deadline_passed = FALSE
    /\ aborted = 0
    /\ reloads = <<>>
    /\ callbacks = <<>>
    /\ REQUEST_COUNTER = UsizeZero
    /\ count = [t \in Threads |-> UsizeZero]
    /\ rid_pc = [t \in Threads |-> "idle"]
    /\ ids = <<>>

\* The process as run_async has started it, before any signal.
ProcStarted == TasksStarted /\ RouteIdle

\* Router calls recorded in `via`: enough for every frontend to call and
\* one of them to call again.
MaxRouteCalls == MaxFrontends + 1

\* What a router call made for a connection leaves alone.
RouteFrame ==
    /\ UNCHANGED <<healthVars, concVars, proxyVars>>
    /\ UNCHANGED <<shutdown_sent, checks_empty, loops, started, accept_errors,
                   main_pc, join_idx, handlers, deadline_passed, aborted,
                   new_config, verdict, reloads, callbacks, value, ctx,
                   substituted, ridVars, checkVars, metricVars, frontends>>

\* The handler of a connection accepted on frontend f calls
\* router.select(backend_name, ...) with the backend its frontend names.
FrontendSelect(f, client) ==
    /\ f \in 1..Len(frontends)
    /\ frontends[f].backend = PoolName
    /\ Len(via) < MaxRouteCalls
    /\ RouterSelect(frontends[f].backend, client)
    /\ via' = Append(via, [frontend |-> f, op |-> "select",
                           server |-> last'.result])
    /\ RouteFrame

\* The handler of a connection accepted on frontend f calls
\* router.on_connect(backend_name, backend_addr).
FrontendOnConnect(f, a) ==
    /\ f \in 1..Len(frontends)
    /\ frontends[f].backend = PoolName
    /\ Len(via) < MaxRouteCalls
    /\ \E i \in 1..Len(servers) : servers[i].address = a
    /\ RouterOnConnect(frontends[f].backend, a)
    /\ via' = Append(via, [frontend |-> f, op |-> "on_connect",
                           server |-> Some(a)])
    /\ RouteFrame

\* No header is being built.
NoHeader ==
    /\ value = <<>>
    /\ ctx = [client_ip |-> <<"192.168.1.100">>, client_port |-> <<"12345">>,
              backend_name |-> <<"web-servers">>,
              backend_addr |-> <<"10.0.0.1:8080">>]
    /\ substituted = None

\* The process with health checks configured and no configuration at hand.
ProcIdle ==
    /\ ProcStarted
    /\ backends = CheckedBackends
    /\ NoHeader
    /\ checks_empty = FALSE
    /\ new_config = MinimalConfig
    /\ verdict = None

\* The router and its algorithm, called sequentially.
Init == AlgInit /\ HealthIdle /\ ConcIdle /\ ProxyIdle /\ ProcIdle

Next == AlgNext

Spec == Init /\ [][Next]_vars

\* HealthState, called sequentially.
InitHealth == HealthInit /\ AlgIdle /\ ConcIdle /\ ProxyIdle /\ ProcIdle

NextHealth == HealthNext

SpecHealth == InitHealth /\ [][NextHealth]_vars

\* HealthState with its connection counters, called sequentially.
InitHealthConn ==
    /\ InitHealth
    /\ config.healthy_threshold = 1
    /\ config.unhealthy_threshold = MaxThreshold

NextHealthConn ==
    \/ HealthNext
    \/ \E s \in HealthServers : IncrementConnections(s)
    \/ \E s \in HealthServers : DecrementConnections(s)

SpecHealthConn == InitHealthConn /\ [][NextHealthConn]_vars

\* The accept path next to the health checker: handle_tcp_connection and
\* handle_http_connection pick the server of a new connection with
\* router.select while probe results reach the HealthState.
InitDispatch ==
    /\ AlgInit
    /\ servers = [i \in HealthServers |-> [address |-> i, weight |-> 1]]
    /\ first = UsizeZero
    /\ hashOf \in [ClientIPs -> {UsizeZero, ToWord(1, 4)}]
    /\ HealthInit
    /\ config.unhealthy_threshold = 1
    /\ config.healthy_threshold = MaxThreshold
    /\ ConcIdle
    /\ ProxyIdle
    /\ ProcIdle

NextDispatch ==
    \/ \E client \in {c \in Clients : c.port = 12345} :
          Select(PoolName, Some(client))
    \/ \E s \in HealthServers : RecordSuccess(s)
    \/ \E s \in HealthServers : RecordFailure(s)
    \/ Tick

SpecDispatch == InitDispatch /\ [][NextDispatch]_vars

\* HealthState, called from concurrent threads.
InitHealthConc == HealthConcInit /\ AlgIdle /\ ConcIdle /\ ProxyIdle /\ ProcIdle

NextHealthConc == HealthConcNext

SpecHealthConc == InitHealthConc /\ [][NextHealthConc]_vars

\* The connection counters, called from concurrent threads.
InitConnConc == ConnConcInit /\ HealthIdle /\ ConcIdle /\ ProxyIdle /\ ProcIdle

NextConnConc == ConnConcNext

SpecConnConc == InitConnConc /\ [][NextConnConc]_vars

\* One client connection handled from the spawn of its task on.  The
\* runtime polls a ready task, a backend that waits for EOF closes once it
\* sees it, and a connect that can complete does, as does a timer.
InitConn ==
    /\ AlgInit
    /\ Len(servers) <= 1
    /\ first = UsizeZero
    /\ HealthIdle
    /\ ConcIdle
    /\ HandlerInit
    /\ ProcIdle
NextConn ==
    \/ \E client \in Clients : HandlerSelect(client)
    \/ HandlerOnConnect
    \/ C2bEof
    \/ B2cEof
    \/ Join
    \/ HandlerOnDisconnect
    \/ \E outcome \in {"connected", "refused", "timeout"} : TcpDial(outcome)
    \/ ClientClose
    \/ BackendClose
    \/ \E dir \in {"c2b", "b2c"} : CopyError(dir)
    \/ HttpRequest
    \/ \E ok \in BOOLEAN : ReqConnect(ok)
    \/ \E ok \in BOOLEAN : ReqHandshake(ok)
    \/ \E o \in Outcomes : ReqSend(o)
    \/ \E res \in {"Ok", "Err"} : ServeConnectionEnds(res)
SpecConn ==
    /\ InitConn /\ [][NextConn]_vars
    /\ WF_vars(HandlerSteps) /\ WF_vars(BackendClose) /\ WF_vars(ConnectSteps)

\* validate_config applied to the configurations of at most MaxEntries
\* frontends and backends.
InitValidate ==
    /\ AlgIdle /\ HealthIdle /\ ConcIdle /\ ProxyIdle
    /\ ProcStarted
    /\ backends = CheckedBackends
    /\ NoHeader
    /\ checks_empty = FALSE
    /\ \E nf \in 0..MaxEntries : \E nb \in 0..(MaxEntries - nf) :
          new_config \in ConfigsOf(nf, nb)
    /\ verdict = None
NextValidate == Validate
SpecValidate == InitValidate /\ [][NextValidate]_vars

\* generate_short_request_id called from two tasks at the same time.
InitRequestId ==
    /\ AlgIdle /\ HealthIdle /\ ConcIdle /\ ProxyIdle
    /\ shutdown_sent = FALSE
    /\ loops = [l \in Loops |-> "running"]
    /\ started = [l \in Loops |-> 0]
    /\ accept_errors = 0
    /\ main_pc = "waiting"
    /\ join_idx = 1
    /\ handlers = 0
    /\ deadline_passed = FALSE
    /\ aborted = 0
    /\ reloads = <<>>
    /\ callbacks = <<>>
    /\ NoHeader
    /\ checks_empty = FALSE
    /\ new_config = MinimalConfig
    /\ verdict = None
    /\ ProbesIdle
    /\ RouteIdle
    /\ backends = CheckedBackends
    /\ REQUEST_COUNTER \in RequestCounterStarts
    /\ count = [t \in Threads |-> UsizeZero]
    /\ rid_pc = [t \in Threads |-> "idle"]
    /\ ids = <<>>
NextRequestId ==
    \/ \E t \in Threads : RidFetchAdd(t)
    \/ \E t \in Threads : RidFormat(t)
SpecRequestId == InitRequestId /\ [][NextRequestId]_vars

\* substitute_variables applied to the header values of at most
\* MaxHeaderLen tokens.
InitSubstitute ==
    /\ AlgIdle /\ HealthIdle /\ ConcIdle /\ ProxyIdle
    /\ ProcStarted
    /\ backends = CheckedBackends
    /\ checks_empty = FALSE
    /\ new_config = MinimalConfig
    /\ verdict = None
    /\ \E n \in 0..MaxHeaderLen : value \in SeqsOf(Tokens, n)
    /\ ctx \in [client_ip : {<<"192.168.1.100">>}, client_port : {<<"12345">>},
                 backend_name : CtxBackendNames,
                 backend_addr : {<<"10.0.0.1:8080">>}]
    /\ substituted = None
NextSubstitute == Substitute
SpecSubstitute == InitSubstitute /\ [][NextSubstitute]_vars

\* The long-running tasks and the shutdown broadcast, in a process that
\* stays alive.  select! polls its branches in random order, so a branch
\* that stays ready is taken.
InitLoops ==
    /\ AlgIdle /\ HealthIdle /\ ConcIdle /\ ProxyIdle
    /\ ProcStarted
    /\ NoHeader
    /\ backends \in {CheckedBackends, UncheckedBackends}
    /\ checks_empty = (Checks(backends) = <<>>)
    /\ new_config = MinimalConfig
    /\ verdict = None
NextLoops ==
    \/ \E l \in Listeners, res \in {"ok", "error"} : ListenerAccept(l, res)
    \/ HandlerEnds
    \/ CheckerStart
    \/ CheckerTick
    \/ \E l \in Loops : ObserveShutdown(l)
    \/ CtrlC
SpecLoops ==
    /\ InitLoops /\ [][NextLoops]_vars
    /\ \A l \in Loops : SF_vars(ObserveShutdown(l))

\* The configuration watcher.
InitWatcher == AlgIdle /\ HealthIdle /\ ConcIdle /\ ProxyIdle /\ ProcIdle
NextWatcher ==
    \/ \E file \in Files : WatcherReload(file)
    \/ ObserveShutdown("watcher")
    \/ CtrlC
SpecWatcher == InitWatcher /\ [][NextWatcher]_vars

\* The process from its start to its exit.
InitShutdown == InitLoops
NextShutdown ==
    \/ \E l \in Listeners, res \in {"ok", "error"} : ListenerAccept(l, res)
    \/ HandlerEnds
    \/ CheckerStart
    \/ CheckerTick
    \/ \E l \in Loops : ObserveShutdown(l)
    \/ CtrlC
    \/ DeadlineElapses
    \/ JoinHandle
    \/ JoinDeadline
    \/ Exit
SpecShutdown == InitShutdown /\ [][NextShutdown]_vars

\* Algorithms the frontends of a configuration choose among.
FrontendChoices ==
    {Frontend(name, alg) : name \in {"p", "q"},
                           alg \in {"round_robin", "least_connections"}}

\* A router built from up to MaxFrontends frontends over two backends, and
\* the calls the connections of those frontends make on pool "p".
InitRouter ==
    /\ backends \in {CheckedBackends, TwoServerBackends}
    /\ \E n \in 0..MaxFrontends : frontends \in SeqsOf(FrontendChoices, n)
    /\ LET info == RouterNew(backends, frontends)[PoolName]
       IN  /\ algorithm = info.algorithm
           /\ servers = info.servers
    /\ counter = UsizeZero
    /\ first = UsizeZero
    /\ connections = <<>>
    /\ hashOf = [ip \in ClientIPs |-> UsizeZero]
    /\ selected = <<>>
    /\ seen = {}
    /\ last = NoSelect
    /\ via = <<>>
    /\ HealthIdle /\ ConcIdle /\ ProxyIdle
    /\ TasksStarted
    /\ NoHeader
    /\ checks_empty = FALSE
    /\ new_config = MinimalConfig
    /\ verdict = None
NextRouter ==
    \/ \E f \in 1..MaxFrontends, c \in Clients : FrontendSelect(f, Some(c))
    \/ \E f \in 1..MaxFrontends, a \in Addrs : FrontendOnConnect(f, a)
SpecRouter == InitRouter /\ [][NextRouter]_vars

\* One keep-alive client connection of an HTTP frontend, on a pool of two
\* servers.
InitKeepAlive ==
    /\ AlgInit
    /\ algorithm \in {"round_robin", "least_connections"}
    /\ Len(servers) = 2
    /\ HealthIdle
    /\ ConcIdle
    /\ HandlerInit
    /\ protocol = "http"
    /\ backend_name = PoolName
    /\ peers.connect = "answers"
    /\ ProcIdle
NextKeepAlive ==
    \/ \E client \in Clients : HandlerSelect(client)
    \/ HandlerOnConnect
    \/ HttpRequest
    \/ \E ok \in BOOLEAN : ReqConnect(ok)
    \/ \E ok \in BOOLEAN : ReqHandshake(ok)
    \/ \E o \in Outcomes : ReqSend(o)
    \/ \E res \in {"Ok", "Err"} : ServeConnectionEnds(res)
    \/ HandlerOnDisconnect
SpecKeepAlive == InitKeepAlive /\ [][NextKeepAlive]_vars

\* A connection handler and the handler tasks of other connections, on one
\* router.
InitSessions ==
    /\ AlgInit
    /\ algorithm = "least_connections"
    /\ Len(servers) <= 2
    /\ HealthIdle
    /\ ConcIdle
    /\ HandlerInit
    /\ peers.kind = "active"
    /\ peers.connect = "answers"
    /\ ProcIdle
NextSessions ==
    \/ \E client \in Clients : HandlerSelect(client)
    \/ HandlerOnConnect
    \/ C2bEof
    \/ B2cEof
    \/ Join
    \/ HandlerOnDisconnect
    \/ \E outcome \in {"connected", "refused", "timeout"} : TcpDial(outcome)
    \/ ClientClose
    \/ BackendClose
    \/ \E dir \in {"c2b", "b2c"} : CopyError(dir)
    \/ HttpRequest
    \/ \E ok \in BOOLEAN : ReqConnect(ok)
    \/ \E ok \in BOOLEAN : ReqHandshake(ok)
    \/ \E o \in Outcomes : ReqSend(o)
    \/ \E res \in {"Ok", "Err"} : ServeConnectionEnds(res)
    \/ \E t \in Threads, client \in Clients : PeerSelect(t, client)
    \/ \E t \in Threads : PeerOnConnect(t)
    \/ \E t \in Threads, res \in {"Ok", "Err"} : PeerProxyEnds(t, res)
    \/ \E t \in Threads : OdGet(t)
    \/ \E t \in Threads : OdLoad(t)
    \/ \E t \in Threads : OdFetchSub(t)
SpecSessions == InitSessions /\ [][NextSessions]_vars

\* Tasks calling select concurrently on a fresh RoundRobin over a stable pool.
InitRrConc ==
    /\ AlgInit
    /\ algorithm = "round_robin"
    /\ counter = UsizeZero
    /\ HealthIdle /\ ConcIdle /\ ProxyIdle /\ ProcIdle
NextRrConc ==
    \/ \E t \in Threads : CallSelect(t)
    \/ \E t \in Threads : RrFetchAdd(t)
    \/ \E t \in Threads : RrReturn(t)
SpecRrConc == InitRrConc /\ [][NextRrConc]_vars

\* record_success called from concurrent threads on a server that is
\* unhealthy: it fell at time 1 and has had fewer successes than the
\* threshold since.
InitSuccessConc ==
    /\ config \in [unhealthy_threshold : {1},
                   healthy_threshold : Thresholds,
                   cooldown : CooldownsMs]
    /\ \E k \in 0..MaxThreshold, f \in 0..1 :
          /\ k = 0 \/ k < config.healthy_threshold
          /\ health = [s \in ConcServers |->
                         [NewServerHealth EXCEPT !.healthy = FALSE,
                                                 !.unhealthy_since = 1,
                                                 !.last_check = 1,
                                                 !.consecutive_failures = f,
                                                 !.consecutive_successes = k]]
          /\ sstreak = [s \in HealthServers |-> IF s \in ConcServers THEN k ELSE 0]
    /\ now = 1
    /\ fstreak = [s \in HealthServers |-> 0]
    /\ prior = 0
    /\ AlgIdle /\ ConcIdle /\ ProxyIdle /\ ProcIdle
NextSuccessConc ==
    \/ \E t \in Threads : CallRecordSuccess(t)
    \/ \E t \in Threads : RsEntry(t)
    \/ \E t \in Threads : RsStoreFailures(t)
    \/ \E t \in Threads : RsFetchAdd(t)
    \/ \E t \in Threads : RsLastCheck(t)
    \/ \E t \in Threads : RsCheck(t)
    \/ \E t \in Threads : RsSetHealthy(t)
    \/ \E t \in Threads : RsClearSince(t)
    \/ \E t \in Threads : RsClearSuccesses(t)
SpecSuccessConc == InitSuccessConc /\ [][NextSuccessConc]_vars

\* The health checker with its probe tasks.
InitChecker ==
    /\ AlgIdle /\ ConcIdle /\ ProxyIdle
    /\ HealthInit
    /\ config.unhealthy_threshold = 2 /\ config.healthy_threshold = 2
    /\ ProcStarted
    /\ NoHeader
    /\ backends \in {CheckedBackends, TwoServerBackends, UncheckedBackends}
    /\ checks_empty = (Checks(backends) = <<>>)
    /\ new_config = MinimalConfig
    /\ verdict = None
NextChecker ==
    \/ CheckerStart
    \/ CheckerTick
    \/ \E i \in 1..(MaxAccepts * MaxPool), run \in ProbeRuns : ProbeCompletes(i, run)
    \/ ObserveShutdown("checker")
    \/ CtrlC
SpecChecker == InitChecker /\ [][NextChecker]_vars

\* ================================================= claims: the algorithms
\* Number of positions lo..hi of seq that hold x.
CountIn(seq, lo, hi, x) == Cardinality({j \in lo..hi : seq[j] = x})

\* Number of pool entries with address a.
Multiplicity(srv, a) == Cardinality({i \in 1..Len(srv) : srv[i].address = a})

\* Sum of the weights of the pool entries with address a.
RECURSIVE WeightOf(_, _)
WeightOf(srv, a) ==
    IF srv = <<>> THEN 0
    ELSE (IF Head(srv).address = a THEN Head(srv).weight ELSE 0)
         + WeightOf(Tail(srv), a)

\* Sum of the weights of the first i pool entries.
CumulativeWeight(srv, i) == TotalWeight(SubSeq(srv, 1, i))

\* The first entry in pool order whose cumulative weight exceeds pos.
FirstExceeding(srv, pos) ==
    LET i == CHOOSE i \in 1..Len(srv) :
                 /\ CumulativeWeight(srv, i) > pos
                 /\ \A j \in 1..(i - 1) : CumulativeWeight(srv, j) <= pos
    IN  Some(srv[i].address)

\* C1: round robin on N servers: the call made when i calls have been made
\* before it returns servers[i mod N], and in every run of N*k consecutive
\* calls each address is returned k times per pool entry that carries it.
C1_RoundRobinRotation ==
    algorithm = "round_robin" =>
        LET N == Len(servers)
        IN  /\ \A j \in 1..Len(selected) :
                  selected[j] =
                      Some(servers[((WordMod(first, N) + j - 1) % N) + 1].address)
            /\ \A a \in 0..Len(selected), k \in 1..Len(selected) :
                  a + N * k <= Len(selected) =>
                      \A x \in Addrs :
                          CountIn(selected, a + 1, a + N * k, Some(x))
                              = k * Multiplicity(servers, x)

\* C1 witness: a new instance on three distinct servers after two full cycles.
C1_Witness ==
    /\ algorithm = "round_robin"
    /\ first = UsizeZero
    /\ Len(servers) = 3
    /\ \A x \in 1..3 : Multiplicity(servers, x) = 1
    /\ Len(selected) = 6

\* C2 (as claimed): weighted selection with total weight W > 0: the call made
\* when c calls have been made before it returns the first entry whose
\* cumulative weight exceeds c mod W, and in every run of W*k consecutive
\* calls each address is returned k times its weight.
C2_WeightedExact ==
    (algorithm = "weighted" /\ TotalWeight(servers) > 0) =>
        LET W == TotalWeight(servers)
        IN  /\ \A j \in 1..Len(selected) :
                  selected[j] =
                      FirstExceeding(servers, (WordMod(first, W) + j - 1) % W)
            /\ \A a \in 0..Len(selected), k \in 1..Len(selected) :
                  a + W * k <= Len(selected) =>
                      \A x \in Addrs :
                          CountIn(selected, a + 1, a + W * k, Some(x))
                              = k * WeightOf(servers, x)

C4_IpHashAffinity ==
    algorithm = "ip_hash" =>
        \A p \in seen, q \in seen :
            (p[1] # None /\ q[1] # None /\ p[1][1].ip = q[1][1].ip)
                => p[2] = q[2]

\* C4 witness: both ports of one IP have been served, and a client of
\* another IP got a different server.
C4_Witness ==
    /\ algorithm = "ip_hash"
    /\ \E p \in seen, q \in seen, r \in seen :
          /\ p[1] # None /\ q[1] # None /\ r[1] # None
          /\ p[1][1].ip = q[1][1].ip
          /\ p[1][1].port # q[1][1].port
          /\ r[1][1].ip # p[1][1].ip
          /\ r[2] # p[2]

\* C11: under sequential calls on a LeastConnections pool, connection_count
\* is the running count: on_connect(s) adds 1 to the count of s,
\* on_disconnect(s) subtracts 1 unless the count is 0 (or s was never
\* connected), where it stays 0, and neither changes the count of any other
\* server.
C11_RunningCount ==
    [][algorithm = "least_connections" =>
          \A a \in Addrs :
             LET before == ConnectionCount(connections, a)
                 after == ConnectionCount(connections', a)
                 others == \A b \in Addrs \ {a} :
                              ConnectionCount(connections', b)
                                 = ConnectionCount(connections, b)
             IN  /\ \E n \in 0..MaxConns : before = ToWord(n, 2)
                 /\ OnConnect(PoolName, a)
                       => /\ \E n \in 0..(MaxConns - 1) :
                                before = ToWord(n, 2) /\ after = ToWord(n + 1, 2)
                          /\ others
                 /\ OnDisconnect(PoolName, a)
                       => /\ \E n \in 0..MaxConns :
                                /\ before = ToWord(n, 2)
                                /\ after = ToWord(IF n = 0 THEN 0 ELSE n - 1, 2)
                          /\ others]_vars

\* One server connected and disconnected back to 0 while another holds two
\* connections.
C11_Witness ==
    /\ algorithm = "least_connections"
    /\ \E a, b \in DOMAIN connections :
          /\ a # b
          /\ ConnectionCount(connections, a) = U32Zero
          /\ ConnectionCount(connections, b) = ToWord(2, 2)

\* ============================================== claims: the accept path
\* C13: the server that router.select returns for an accepted connection is
\* healthy and not in cooldown at the time of the selection.
C13_DispatchHealthy ==
    [][\A client \in Clients :
          Select(PoolName, Some(client))
             => \A a \in Addrs :
                   last'.result = Some(a)
                      => /\ IsHealthy(health, a)
                         /\ ~IsInCooldown(health, config, now, a)]_vars

\* ================================================ claims: the health state
\* C5: under sequential calls, a record_failure call on a healthy server
\* leaves it healthy exactly when fewer than unhealthy_threshold
\* record_failure calls have been made since the last record_success call:
\* the call that completes a streak of unhealthy_threshold failures is the
\* one that makes the server unhealthy.
C5_FailuresMarkUnhealthy ==
    [][\A s \in HealthServers :
          (fstreak'[s] = fstreak[s] + 1 /\ IsHealthy(health, s))
              => (IsHealthy(health', s)
                     <=> fstreak'[s] < config.unhealthy_threshold)]_vars

\* A server that the last of two or more consecutive failures made unhealthy.
C5_Witness ==
    \E s \in DOMAIN health :
       /\ ~health[s].healthy
       /\ config.unhealthy_threshold >= 2
       /\ fstreak[s] = config.unhealthy_threshold
       /\ health[s].consecutive_failures = 0
       /\ health[s].unhealthy_since # 0

\* C6: under sequential calls, a record_success call on an unhealthy server
\* makes it healthy exactly when healthy_threshold record_success calls have
\* been made since the last record_failure call, and that call leaves
\* unhealthy_since = 0 and consecutive_successes = 0; with fewer the server
\* stays unhealthy.
C6_SuccessesMarkHealthy ==
    [][\A s \in HealthServers :
          (sstreak'[s] = sstreak[s] + 1 /\ ~IsHealthy(health, s))
              => /\ IsHealthy(health', s)
                       <=> sstreak'[s] >= config.healthy_threshold
                 /\ IsHealthy(health', s)
                       => /\ health'[s].unhealthy_since = 0
                          /\ health'[s].consecutive_successes = 0]_vars

\* A server that the last of two or more consecutive successes made healthy.
C6_Witness ==
    \E s \in DOMAIN health :
       /\ health[s].healthy
       /\ config.healthy_threshold >= 2
       /\ sstreak[s] = config.healthy_threshold
       /\ health[s].consecutive_successes = 0
       /\ health[s].unhealthy_since = 0

\* C7: every record_success call leaves consecutive_failures = 0, and the
\* consecutive_failures of a healthy server counts only the record_failure
\* calls made since the last record_success call, so failures made before a
\* success do not count toward unhealthy_threshold.
C7_SuccessResetsFailures ==
    [][\A s \in HealthServers :
          /\ sstreak'[s] = sstreak[s] + 1
                => health'[s].consecutive_failures = 0
          /\ (s \in DOMAIN health' /\ health'[s].healthy)
                => health'[s].consecutive_failures = fstreak'[s]]_vars

\* A server still healthy one failure short of the threshold, after a success
\* that reset a non-zero failure count: more than unhealthy_threshold failures
\* in all.
C7_Witness ==
    \E s \in DOMAIN health :
       /\ prior = s
       /\ health[s].healthy
       /\ fstreak[s] >= 1
       /\ fstreak[s] + 1 = config.unhealthy_threshold
       /\ health[s].consecutive_failures = fstreak[s]

\* C12: in every state reached by sequential register_server,
\* record_success, record_failure, mark_unhealthy and reset_server calls,
\* is_in_cooldown(s) is false exactly when s is healthy or at least the
\* cooldown has elapsed since unhealthy_since.
C12_CooldownIff ==
    \A s \in HealthServers :
       ~IsInCooldown(health, config, now, s)
          <=> \/ IsHealthy(health, s)
              \/ (now - health[s].unhealthy_since) * 1000 >= config.cooldown

\* An unhealthy server whose cooldown has elapsed, and one still inside it.
C12_Witness ==
    \E s, u \in DOMAIN health :
       /\ ~health[s].healthy
       /\ (now - health[s].unhealthy_since) * 1000 >= config.cooldown
       /\ ~IsInCooldown(health, config, now, s)
       /\ ~health[u].healthy
       /\ IsInCooldown(health, config, now, u)

\* C14: a server with no record is healthy, not in cooldown and kept by
\* filter_healthy; a record appears only through register_server,
\* record_success or record_failure, starting from the default (healthy,
\* all counters 0) record, never through mark_unhealthy or reset_server; and
\* a record is never removed.
C14_UnknownIsHealthy ==
    [][\A s \in HealthServers :
          /\ s \notin DOMAIN health
                => /\ IsHealthy(health, s)
                   /\ ~IsInCooldown(health, config, now, s)
                   /\ FilterHealthy(health, config, now, <<s>>) = <<s>>
          /\ s \in DOMAIN health => s \in DOMAIN health'
          /\ (s \notin DOMAIN health /\ s \in DOMAIN health')
                => \/ RegisterServer(s) /\ health'[s] = NewServerHealth
                   \/ /\ RecordSuccess(s)
                      /\ health'[s] = RecordSuccessRec(NewServerHealth, config, now)
                   \/ /\ RecordFailure(s)
                      /\ health'[s] = RecordFailureRec(NewServerHealth, config,
                                                       now, now')
          /\ (MarkUnhealthy(s) \/ ResetServer(s))
                => DOMAIN health' = DOMAIN health]_vars

\* A server with no record next to an unhealthy one: filter_healthy keeps
\* the first and drops the second.
C14_Witness ==
    \E s \in HealthServers \ DOMAIN health, u \in DOMAIN health :
       /\ ~health[u].healthy
       /\ FilterHealthy(health, config, now, <<u, s>>) = <<s>>

\* C15: for every server, registered or not, is_healthy(s) is false right
\* after mark_unhealthy(s) returns.
C15_MarkForcesUnhealthy ==
    \A s \in HealthServers : ~IsHealthy(MarkUnhealthyOn(health, now, s), s)

\* C16: reset_server(s) on a registered server leaves its record healthy
\* with unhealthy_since, consecutive_failures and consecutive_successes at
\* 0 whatever it held before, leaves active_connections and the record of
\* every other server as they were, and restarts the failure streak: only
\* the failure that brings the streak to unhealthy_threshold makes the
\* server unhealthy again.
C16_ResetFrame ==
    [][\A s \in HealthServers :
          /\ (ResetServer(s) /\ s \in DOMAIN health)
                => /\ health'[s] = [health[s] EXCEPT
                                       !.healthy = TRUE,
                                       !.unhealthy_since = 0,
                                       !.consecutive_failures = 0,
                                       !.consecutive_successes = 0]
                   /\ fstreak'[s] = 0
                   /\ DOMAIN health' = DOMAIN health
                   /\ \A u \in DOMAIN health \ {s} : health'[u] = health[u]
          /\ (fstreak'[s] = fstreak[s] + 1 /\ IsHealthy(health, s))
                => (IsHealthy(health', s)
                       <=> fstreak'[s] < config.unhealthy_threshold)]_vars

\* A server reset after its last probe, with its tracked connection kept,
\* next to a server that is still unhealthy.
C16_Witness ==
    \E s, u \in DOMAIN health :
       /\ health[s].healthy
       /\ health[s].last_check # 0
       /\ fstreak[s] = 0
       /\ sstreak[s] = 0
       /\ health[s].active_connections = ToWord(1, 2)
       /\ ~health[u].healthy

\* ================================= claims: the health state, concurrently
Quiescent == \A t \in Threads : pc[t] = "idle"

\* C8: whenever no call is in progress, after any interleaving of concurrent
\* record_success, record_failure, mark_unhealthy and reset_server calls on a
\* server, a record with healthy = true has unhealthy_since = 0, and so the
\* server is not reported in cooldown.
C8_HealthyImpliesNoSince ==
    Quiescent =>
        \A s \in DOMAIN health :
            health[s].healthy
                => /\ health[s].unhealthy_since = 0
                   /\ ~IsInCooldown(health, config, now, s)

\* C9: whenever no call is in progress, after any interleaving of concurrent
\* record_success and record_failure calls on a server, its record has
\* consecutive_failures = 0 or consecutive_successes = 0.
C9_StreaksExclusive ==
    Quiescent =>
        \A s \in DOMAIN health :
            \/ health[s].consecutive_failures = 0
            \/ health[s].consecutive_successes = 0

\* No call in progress, after calls that overlapped in time, with a streak of
\* two on the record.
C9_Witness ==
    /\ Quiescent
    /\ raced
    /\ \E s \in DOMAIN health :
          \/ health[s].consecutive_failures >= 2
          \/ health[s].consecutive_successes >= 2

\* ======================================== claims: the connection counters
\* C10: under any interleaving of concurrent on_connect / on_disconnect and
\* increment_connections / decrement_connections calls, excess disconnects
\* included, no connection counter wraps below 0: every counter stays at
\* most the number of calls issued, never a huge value.
C10_NoUnderflow ==
    /\ \A a \in DOMAIN connections :
          ~WordLess(ToWord(calls, 2), connections[a])
    /\ \A s \in DOMAIN health :
          ~WordLess(ToWord(calls, 2), health[s].active_connections)

\* The responses the client has received, in order.
Responses == SelectSeq(client_got, LAMBDA e : e.kind = "response")

\* C17: every call of proxy_request that returns has recorded exactly one
\* request observation, whose status is the status of the response the
\* client gets: 502 when the connect, the handshake or the send failed, the
\* backend's own status otherwise; each call returns a response (Ok).
C17_OneObservationPerRequest ==
    /\ Len(recorded) = Len(outcomes)
    /\ Len(Responses) = Len(outcomes)
    /\ \A i \in 1..Len(outcomes) :
          /\ i <= Len(recorded) => recorded[i] = Responses[i].status
          /\ Responses[i].status =
                IF outcomes[i].stage = "response" THEN outcomes[i].status ELSE 502
C17_Witness ==
    /\ Len(outcomes) = 2
    /\ outcomes[1].stage = "handshake"
    /\ outcomes[2] = Outcome("response", 404)
    /\ recorded = <<502, 404>>

\* C18: when router.select returns None for an accepted connection, the
\* client of an HTTP frontend receives a 502 response; on a TCP frontend the
\* client connection is closed and no backend has been dialed.
C18_NoBackendAnswered ==
    (hpc = "done" /\ backend_addr = None)
       => IF protocol = "http"
          THEN \E i \in 1..Len(client_got) : client_got[i] = Response(502)
          ELSE dialed = <<>> /\ client_got = <<Closed>>

\* C19: in a TCP session, if either copy direction ended with an I/O error,
\* the result of the session is an error.
C19_CopyErrorIsSessionError ==
    (protocol = "tcp" /\ hpc \in {"disconnect", "done"}
        /\ (copy.c2b = "error" \/ copy.b2c = "error"))
       => result \in {Some(e) : e \in TcpProxyErrors}

\* C20: in a TCP session, once the client has closed its connection the
\* EOF reaches the backend, and with a backend that closes on seeing EOF the
\* session ends, unless a copy fails with an I/O error: on_disconnect is
\* called and the handler returns.
C20_ClientCloseEndsSession ==
    (protocol = "tcp" /\ hpc = "copy" /\ peers.client = "closed"
        /\ peers.kind = "waits_for_eof")
       ~> (hpc = "done" \/ copy.c2b = "error" \/ copy.b2c = "error")

\* C21: the HTTP proxy's backend dial is bounded by connect_timeout: a
\* request whose connect to the backend never completes is answered with
\* 502 (unless the client connection ends first).
C21_HttpDialBounded ==
    (hpc = "serve" /\ reqpc = "connect" /\ peers.connect = "silent")
       ~> \/ hpc # "serve"
          \/ Len(Responses) > 0 /\ Responses[Len(Responses)] = Response(502)

\* C22: connect_to_backend returns BackendTimeout when the connect has not
\* completed within connect_timeout, BackendConnectError when it failed, and
\* the stream otherwise; on an error handle_tcp_proxy returns it and no copy
\* has started.
C22_ConnectErrors ==
    [][\A outcome \in {"connected", "refused", "timeout"} :
          TcpDial(outcome)
             => /\ (peers.connect = "silent")
                      => /\ result' = Some("BackendTimeout")
                         /\ hpc' = "disconnect" /\ copy' = copy
                /\ outcome = "refused"
                      => /\ result' = Some("BackendConnectError")
                         /\ hpc' = "disconnect" /\ copy' = copy
                /\ outcome = "connected"
                      => /\ result' = None
                         /\ hpc' = "copy" /\ peers'.backend = "open"]_vars
C22_Witness ==
    /\ protocol = "tcp"
    /\ hpc = "done"
    /\ result = Some("BackendConnectError")
    /\ copy = [c2b |-> "none", b2c |-> "none"]

\* C23: whatever the calls made so far, every algorithm's select returns
\* None for an empty server list, with or without a client address; Weighted
\* returns None when all weights are 0; BackendRouter::select returns None
\* for an unknown backend name and for an empty pool.
C23_NoServerNoSelection ==
    /\ RoundRobinSelect(<<>>, counter).result = None
    /\ WeightedSelect(<<>>, counter).result = None
    /\ LeastConnectionsSelect(<<>>, connections) = None
    /\ \A client \in {Some(c) : c \in Clients} \cup {None} :
          IpHashSelect(<<>>, hashOf, client) = None
    /\ (\A i \in 1..Len(servers) : servers[i].weight = 0)
          => WeightedSelect(servers, counter).result = None
    /\ last.op = "select"
          => /\ (last.name # PoolName \/ servers = <<>>) => last.result = None
             /\ (algorithm = "weighted"
                    /\ \A i \in 1..Len(servers) : servers[i].weight = 0)
                   => last.result = None
C23_Witness ==
    /\ algorithm = "weighted"
    /\ Len(servers) = 2
    /\ \A i \in 1..Len(servers) : servers[i].weight = 0
    /\ last = [op |-> "select", name |-> PoolName, result |-> None]

\* The validation rules, stated on the configuration.
Has(errors, msg) == \E k \in 1..Len(errors) : errors[k] = msg
RuleMessages(c) ==
    LET F == c.frontends
        B == c.backends
    IN  {<<F = <<>>, "at least one frontend must be defined">>,
         <<B = <<>>, "at least one backend must be defined">>,
         <<\E i, j \in 1..Len(F) : i < j /\ F[i].name = F[j].name,
           "duplicate frontend name">>,
         <<\E i, j \in 1..Len(F) : i < j /\ F[i].listen = F[j].listen,
           "duplicate listen address">>,
         <<\E i, j \in 1..Len(B) : i < j /\ B[i].name = B[j].name,
           "duplicate backend names detected">>,
         <<\E i \in 1..Len(F) : \A j \in 1..Len(B) : B[j].name # F[i].backend,
           "references non-existent backend">>,
         <<\E j \in 1..Len(B) : \E k \in 1..Len(B[j].servers) :
              B[j].servers[k] = 0,
           "has weight 0">>,
         <<\E j \in 1..Len(B) :
              /\ B[j].health_check # None
              /\ B[j].health_check[1].check_type = "http"
              /\ B[j].health_check[1].path = None,
           "HTTP health check but no path">>,
         <<c.log_level \notin ValidLevels, "invalid log level">>}
EmptyNameOrServers(c) ==
    \/ \E i \in 1..Len(c.frontends) : c.frontends[i].name = ""
    \/ \E j \in 1..Len(c.backends) :
          c.backends[j].name = "" \/ c.backends[j].servers = <<>>

\* C26: validate_config returns Err whenever the configuration violates a
\* validation rule, with the message of every violated rule in the error,
\* and returns Ok when no rule is violated and no name and no server list
\* is empty.
C26_ValidationRules ==
    verdict # None
       => /\ \A r \in RuleMessages(new_config) :
                r[1] => ~verdict[1].ok /\ Has(verdict[1].errors, r[2])
          /\ ((\A r \in RuleMessages(new_config) : ~r[1])
                 /\ ~EmptyNameOrServers(new_config))
                => verdict[1].ok

\* The configurations of the files that load and pass validate_config.
RECURSIVE Accepted(_)
Accepted(files) ==
    IF files = <<>> THEN <<>>
    ELSE (IF Head(files).kind = "config" /\ ValidateConfig(Head(files).config).ok
          THEN <<Head(files).config>> ELSE <<>>)
         \o Accepted(Tail(files))

\* C27: the reload callback is invoked once for every reload attempt whose
\* file loads and passes validate_config, with that configuration, and for
\* no other attempt; no attempt, failed or not, ends the watcher's loop.
C27_ReloadOnlyValid ==
    /\ [](callbacks = Accepted(reloads))
    /\ [][\A file \in Files :
             WatcherReload(file) => loops'["watcher"] = "running"]_vars
C27_Witness ==
    /\ Len(reloads) = 2
    /\ reloads[1].kind = "config" /\ ~ValidateConfig(reloads[1].config).ok
    /\ reloads[2].kind = "config" /\ ValidateConfig(reloads[2].config).ok
    /\ callbacks = <<reloads[2].config>>
    /\ loops["watcher"] = "running"

\* C24: after the shutdown broadcast is sent, every accept loop and the
\* health checker loop (its idle mode too) eventually return; a loop that
\* has observed shutdown accepts no connection and starts no probe; an
\* accept error leaves the accept loop running.
C24_LoopsReturn ==
    /\ shutdown_sent ~> (\A l \in Listeners \cup {"checker"} : loops[l] = "returned")
    /\ [][\A l \in Loops : loops[l] = "returned" => started'[l] = started[l]]_vars
    /\ [][\A l \in Listeners :
             ListenerAccept(l, "error") => loops'[l] = "running"]_vars
C24_Witness ==
    /\ shutdown_sent
    /\ checks_empty
    /\ \A l \in Listeners \cup {"checker"} : loops[l] = "returned"
    /\ accept_errors > 0
    /\ started["fe1"] > 0

\* C25: the process does not exit while a connection handler task is still
\* running, unless the grace deadline has passed.
C25_GraceForHandlers ==
    (main_pc = "exited" /\ aborted > 0) => deadline_passed

\* One pass over the value: each token replaced by its own substitution.
RECURSIVE SinglePass(_, _)
SinglePass(v, c) ==
    IF v = <<>> THEN <<>>
    ELSE (CASE Head(v) = "$client_ip" -> c.client_ip
            [] Head(v) = "$client_port" -> c.client_port
            [] Head(v) = "$backend_name" -> c.backend_name
            [] Head(v) = "$backend_addr" -> c.backend_addr
            [] OTHER -> <<Head(v)>>)
         \o SinglePass(Tail(v), c)

\* C28: substitution is single-pass: every occurrence of the four variables
\* in the configured value is replaced, text brought in by a replacement is
\* not substituted again, and other `$` tokens are left as they are.
C28_SinglePass ==
    substituted # None => substituted[1] = SinglePass(value, ctx)

\* The k values the counter held before its present one, latest first.
RECURSIVE Previous(_, _)
Previous(w, k) ==
    IF k = 0 THEN {} ELSE {WrappingDec(w)} \cup Previous(WrappingDec(w), k - 1)

\* The ids handed out: those returned and those being formatted.
HandedOut ==
    {ids[i] : i \in 1..Len(ids)}
        \cup {FormatShort(count[t]) : t \in {u \in Threads : rid_pc[u] = "format"}}
Calls == Len(ids) + Cardinality({u \in Threads : rid_pc[u] = "format"})

\* C29: the short request ids of any two calls, concurrent ones included,
\* differ; each is req- followed by 16 lowercase hex digits, those of a
\* counter that increases by one per call.
C29_ShortIdsUnique ==
    /\ Cardinality(HandedOut) = Calls
    /\ HandedOut = {FormatShort(w) : w \in Previous(REQUEST_COUNTER, Calls)}
    /\ \A i \in 1..Len(ids) :
          /\ Len(ids[i]) = 20
          /\ SubSeq(ids[i], 1, 4) = <<"r", "e", "q", "-">>
          /\ \A k \in 5..20 : \E d \in 1..Len(HexDigits) : ids[i][k] = HexDigits[d]
C29_Witness ==
    /\ Len(ids) = MaxCalls
    /\ ids[1] = FormatShort(ToWord(Limb - 1, 4))
    /\ ids[2] = FormatShort(ToWord(Limb - 2, 4))
    /\ ids[3] = FormatShort(<<0, 1, 0, 0>>)
    /\ ids[3][16] = "1"

\* ============================================ claims: sessions and counters
\* Number of sessions in progress on address a: the handlers between their
\* router.on_connect and their router.on_disconnect.
SessionsOn(a) ==
    Cardinality({t \in Threads : pc[t] \in InSession /\ arg[t] = a})
      + (IF hpc \in HandlerInSession /\ backend_addr = Some(a) THEN 1 ELSE 0)

\* Every handler has returned.
AllEnded == hpc = "done" /\ \A t \in Threads : pc[t] = "idle"

\* C30: a handler whose select returned Some(addr) calls router.on_connect
\* once before proxying and router.on_disconnect once after the session ends,
\* whatever the result of the session, TCP or HTTP, and a handler whose select
\* returned None calls neither; so under least connections the count of an
\* address is the number of sessions in progress on it, and 0 once every
\* session has ended.
C30_CountIsSessions ==
    /\ [](\A a \in Addrs :
            ConnectionCount(connections, a) = ToWord(SessionsOn(a), 2))
    /\ [](AllEnded => \A a \in Addrs : ConnectionCount(connections, a) = U32Zero)
    /\ [][/\ (hpc = "accepted" /\ hpc' = "done")
                => backend_addr' = None /\ connections' = connections
          /\ (hpc = "accepted" /\ hpc' # "done") => hpc' \in {"accepted", "selected"}
          /\ (hpc = "selected" /\ hpc' # hpc)
                => /\ hpc' \in {"dial", "serve"}
                   /\ connections' = LeastConnOnConnect(connections, backend_addr[1])
          /\ (hpc \in {"dial", "copy", "serve"} /\ hpc' # hpc)
                => hpc' \in {"copy", "disconnect"}
          /\ (hpc = "disconnect" /\ hpc' # hpc)
                => /\ hpc' = "done"
                   /\ connections' = LeastConnOnDisconnect(connections, backend_addr[1])
          /\ hpc = "done" => hpc' = "done"]_vars
C30_Witness ==
    /\ AllEnded
    /\ calls = Cardinality(Threads)
    /\ backend_addr = Some(1)
    /\ result = Some("BackendConnectError")
    /\ 1 \in DOMAIN connections
    /\ connections[1] = U32Zero

\* ======================================== claims: concurrent round robin
\* Calls that hold a counter value and have not returned yet.
InFlight == {t \in Threads : pc[t] = "rr_index"}

\* The counter values 0..k-1 that calls in flight hold.
Held(k) == {v \in 0..(k - 1) : \E t \in InFlight : tmp[t] = ToWord(v, 4)}

\* C31: concurrent RoundRobin::select calls on a fresh instance and a stable
\* pool of N servers consume the counter values 0, 1, 2, .. each exactly
\* once: the completed calls returned the servers of the values that no call
\* in flight holds, and once M calls have all completed each address has been
\* chosen as in the sequential rotation, floor(M/N) or ceil(M/N) times per
\* pool entry.
C31_ConcurrentRotation ==
    LET N == Len(servers)
        M == Len(selected)
        K == M + Cardinality(InFlight)
    IN  /\ counter = ToWord(K, 4)
        /\ Cardinality(Held(K)) = Cardinality(InFlight)
        /\ \A t, u \in InFlight : tmp[t] = tmp[u] => t = u
        /\ \A a \in Addrs :
              CountIn(selected, 1, M, Some(a)) =
                  Cardinality({v \in (0..(K - 1)) \ Held(K) :
                                  servers[(v % N) + 1].address = a})
        /\ (InFlight = {} /\ N > 0) =>
              \A a \in Addrs :
                 /\ CountIn(selected, 1, M, Some(a)) >= Multiplicity(servers, a) * (M \div N)
                 /\ CountIn(selected, 1, M, Some(a))
                       <= Multiplicity(servers, a) * ((M + N - 1) \div N)
C31_Witness ==
    /\ Len(servers) = 3
    /\ \A x \in 1..3 : Multiplicity(servers, x) = 1
    /\ Len(selected) = 4
    /\ selected[1] = Some(2)
    /\ InFlight = {}

\* ====================================== claims: concurrent record_success
\* C32: record_success calls that run concurrently on an unhealthy server,
\* with no other call, and together bring its success streak to the healthy
\* threshold or beyond: once all of them have returned the server is healthy
\* and unhealthy_since is 0, whatever the interleaving of their steps.
C32_ConcurrentSuccessesHeal ==
    \A s \in ConcServers :
        (/\ \A t \in Threads : pc[t] = "idle"
         /\ calls >= 1
         /\ sstreak[s] + calls >= config.healthy_threshold)
           => health[s].healthy /\ health[s].unhealthy_since = 0
C32_Witness ==
    /\ \A t \in Threads : pc[t] = "idle"
    /\ raced
    /\ config.healthy_threshold = 2
    /\ sstreak[1] = 0
    /\ calls = 2
    /\ health[1].healthy
    /\ health[1].unhealthy_since = 0

\* ============================================== claims: the health checker
\* The decimal numeral of n, without sign or leading zeros.
RECURSIVE Decimal(_)
Decimal(n) ==
    IF n < 10 THEN <<DecimalDigits[n + 1]>>
    ELSE Append(Decimal(n \div 10), DecimalDigits[(n % 10) + 1])

\* A numeral without its leading zeros (one digit is kept).
RECURSIVE StripZeros(_)
StripZeros(str) ==
    IF Len(str) > 1 /\ str[1] = "0" THEN StripZeros(Tail(str)) ELSE str

\* The token is a numeral of n.
Denotes(token, n) ==
    /\ token # <<>> /\ token # <<"+">>
    /\ StripZeros(IF token[1] = "+" THEN Tail(token) ELSE token) = Decimal(n)

\* The probe passed: the connection was established, and for an HTTP check
\* the second token of what was read is the expected status.
Passed(check, run) ==
    /\ run.connect = "connected"
    /\ check.check_type = "http" =>
          /\ run.write = "ok"
          /\ run.read = "data"
          /\ LET parts == SplitWhitespace(run.response)
             IN  Len(parts) >= 2 /\ Denotes(parts[2], check.expected_status)

\* C33: on every tick each configured (server, check) pair gets a probe task
\* of its own; a probe that runs to completion reports exactly one signal,
\* record_success if it passed and record_failure otherwise; with no health
\* check configured nothing is registered and nothing is probed.
C33_ProbesReport ==
    LET checks == Checks(backends)
        n == Len(checks)
    IN  /\ Len(probes) = started["checker"] * n
        /\ \A k \in 1..started["checker"], j \in 1..n :
              LET probe == probes[(k - 1) * n + j]
              IN  /\ probe.server = checks[j].server
                  /\ probe.config = checks[j].config
                  /\ probe.tick = k
                  /\ probe.signals <= 1
        /\ last_probe # None =>
              LET probe == probes[last_probe[1].probe]
              IN  /\ probe.signals = 1
                  /\ last_probe[1].signal =
                        IF Passed(probe.config, last_probe[1].run)
                        THEN "record_success" ELSE "record_failure"
                  /\ probe.server \in DOMAIN health
                  /\ last_probe[1].signal = "record_success"
                        => health[probe.server].consecutive_failures = 0
                  /\ last_probe[1].signal = "record_failure"
                        => health[probe.server].consecutive_successes = 0
        /\ n = 0 => health = <<>> /\ probes = <<>> /\ tick_period = None
C33_Witness ==
    /\ started["checker"] = MaxAccepts
    /\ Len(probes) = 2 * MaxAccepts
    /\ \A i \in 1..Len(probes) : probes[i].signals = 1
    /\ last_probe # None
    /\ probes[last_probe[1].probe].config.check_type = "http"
    /\ last_probe[1].run = Run("connected", "ok", "empty", <<>>)
    /\ last_probe[1].signal = "record_failure"
    /\ ~health[1].healthy

\* The handler tasks of a frontend's connections that have been spawned and
\* have not finished.
TasksInFlight(l) == started[l] - ended[l]

\* C34: every accepted connection records connection_opened once, when it is
\* accepted, and connection_closed once, when its handler task finishes,
\* however the handler returned; so the active-connections gauge of a
\* frontend and its backend is the number of its handler tasks in flight, is
\* never negative, and is 0 once every handler has finished.
C34_GaugeBalanced ==
    /\ \A l \in Listeners :
          /\ gauge[l] = TasksInFlight(l)
          /\ gauge[l] >= 0
          /\ ended[l] = started[l] => gauge[l] = 0
    /\ handlers = TasksInFlight("fe1") + TasksInFlight("fe2")
C34_Witness ==
    /\ started["fe1"] = MaxAccepts
    /\ ended["fe1"] = MaxAccepts
    /\ gauge["fe1"] = 0
    /\ started["fe2"] = MaxAccepts
    /\ ended["fe2"] = 1
    /\ gauge["fe2"] = MaxAccepts - 1
    /\ accept_errors > 0

\* C35: in every state reached by sequential HealthState calls,
\* filter_healthy keeps a server exactly when is_healthy reports it healthy,
\* a healthy record having unhealthy_since = 0; and the successes recorded
\* on an unhealthy server count toward healthy_threshold whether or not the
\* cooldown has elapsed, so an unhealthy server is always short of the
\* threshold and one that reaches it is routable at once.
C35_CooldownNeverGates ==
    \A s \in HealthServers :
       /\ FilterHealthy(health, config, now, <<s>>) = <<s>>
             <=> IsHealthy(health, s)
       /\ s \in DOMAIN health =>
             /\ health[s].healthy => health[s].unhealthy_since = 0
             /\ ~health[s].healthy =>
                   /\ health[s].consecutive_successes = sstreak[s]
                   /\ sstreak[s] = 0 \/ sstreak[s] < config.healthy_threshold

\* A server that became unhealthy and took healthy_threshold = 2 successes,
\* all within the first second of a one-second cooldown, and is routable,
\* next to a server still unhealthy and inside its cooldown.
C35_Witness ==
    /\ now = 1
    /\ config.healthy_threshold = 2
    /\ \E s, u \in DOMAIN health :
          /\ health[s].healthy
          /\ sstreak[s] = 2
          /\ health[s].consecutive_successes = 0
          /\ FilterHealthy(health, config, now, <<s, u>>) = <<s>>
          /\ ~health[u].healthy
          /\ health[u].consecutive_successes = 1
          /\ IsInCooldown(health, config, now, u)

\* The frontends of the configuration that name the pool.
Referencing == {i \in 1..Len(frontends) : frontends[i].backend = PoolName}

\* The calls of `via`, up to call k (excluded), that were on_connect(a).
ConnectsBefore(a, k) ==
    Cardinality({j \in 1..(k - 1) :
                    via[j].op = "on_connect" /\ via[j].server = Some(a)})

\* The positions of `via` that hold a select, and the rank of one among them.
SelectsOfVia == {k \in 1..Len(via) : via[k].op = "select"}
RankOfSelect(k) == Cardinality({j \in SelectsOfVia : j <= k})

\* C36: the pool's one algorithm is the algorithm of the last frontend, in
\* configuration order, that names the pool, and RoundRobin when none does;
\* the calls made for the connections of all the frontends that name the
\* pool act on that one instance: under round robin the selections, through
\* whichever frontend, form one rotation from the first server, and under
\* least connections every select sees the on_connect calls made through
\* any frontend.
C36_OneAlgorithmPerPool ==
    /\ algorithm =
          IF Referencing = {} THEN "round_robin"
          ELSE frontends[CHOOSE i \in Referencing :
                            \A j \in Referencing : j <= i].algorithm
    /\ algorithm = "round_robin" =>
          /\ Len(selected) = Cardinality(SelectsOfVia)
          /\ \A k \in SelectsOfVia :
                LET n == RankOfSelect(k)
                IN  /\ via[k].server = selected[n]
                    /\ selected[n]
                          = Some(servers[((n - 1) % Len(servers)) + 1].address)
    /\ algorithm = "least_connections" =>
          /\ \A i \in 1..Len(servers) :
                GetConnections(connections, servers[i].address)
                   = ToWord(ConnectsBefore(servers[i].address, Len(via) + 1), 2)
          /\ \A k \in SelectsOfVia :
                \E i \in 1..Len(servers) :
                   /\ via[k].server = Some(servers[i].address)
                   /\ \A j \in 1..Len(servers) :
                         ConnectsBefore(servers[i].address, k)
                            <= ConnectsBefore(servers[j].address, k)

\* Two frontends on one pool, the first configured for least connections and
\* the second for round robin: the pool rotates, and the selections made
\* through the two frontends in turn continue one sequence.
C36_Witness ==
    /\ frontends = <<Frontend(PoolName, "least_connections"),
                     Frontend(PoolName, "round_robin")>>
    /\ algorithm = "round_robin"
    /\ Len(servers) = 2
    /\ Len(via) = 3
    /\ via[1] = [frontend |-> 1, op |-> "select", server |-> Some(1)]
    /\ via[2] = [frontend |-> 2, op |-> "select", server |-> Some(2)]
    /\ via[3] = [frontend |-> 1, op |-> "select", server |-> Some(1)]

\* C37: on an HTTP frontend the backend server is selected once for the
\* accepted connection: every request of the connection dials the address
\* that selection returned, each request with a connect of its own, the
\* algorithm's counter moves once, and the pool counts one connection from
\* on_connect to on_disconnect, whatever the number of requests.
C37_SelectedOncePerConnection ==
    /\ \A i \in 1..Len(dialed) : Some(dialed[i]) = backend_addr
    /\ Len(outcomes) <= Len(dialed)
    /\ Len(dialed) <= Len(outcomes) + 1
    /\ algorithm = "round_robin" =>
          /\ Len(selected) = IF hpc = "accepted" THEN 0 ELSE 1
          /\ counter = IF hpc = "accepted" THEN first ELSE WrappingInc(first)
          /\ hpc # "accepted" => selected[1] = backend_addr
    /\ algorithm = "least_connections" =>
          \A i \in 1..Len(servers) :
             GetConnections(connections, servers[i].address)
                = IF hpc \in {"serve", "disconnect"}
                     /\ backend_addr = Some(servers[i].address)
                  THEN ToWord(1, 2) ELSE U32Zero

\* Two requests answered on one connection of a round-robin pool with two
\* different servers: both went to the server selected at the start.
C37_Witness ==
    /\ algorithm = "round_robin"
    /\ servers[1].address # servers[2].address
    /\ hpc = "done"
    /\ Len(outcomes) = MaxRequests
    /\ \A i \in 1..Len(outcomes) : outcomes[i].stage = "response"
    /\ dialed = [i \in 1..MaxRequests |-> backend_addr[1]]
    /\ Len(selected) = 1

\* The backends that have a health check, by position, and the interval each
\* asks for.
CheckedIdx == {j \in 1..Len(backends) : backends[j].health_check # None}
IntervalAsked(j) ==
    IF backends[j].health_check[1].interval = None THEN DefaultInterval
    ELSE backends[j].health_check[1].interval[1]

\* The places where the checked backends list server s.
ListingsOf(s) ==
    {<<j, i>> \in CheckedIdx \X (1..MaxPool) :
        i <= Len(backends[j].servers) /\ backends[j].servers[i] = s}

\* The probes spawned for server s at tick k.
ProbesAt(k, s) ==
    {i \in 1..Len(probes) : probes[i].tick = k /\ probes[i].server = s}

C39_CooldownNotRestarted ==
    /\ [][\A s \in DOMAIN health :
             ~health[s].healthy /\ RecordFailure(s)
                => /\ ~health'[s].healthy
                   /\ health'[s].unhealthy_since = health[s].unhealthy_since]_vars
    /\ [](\A s \in DOMAIN health :
             ~health[s].healthy
                => \A t \in 1..MaxNow :
                      MarkUnhealthyRec(health[s], t) = health[s])

\* A server that became unhealthy in second 1 and has failed again in second
\* 2: the cooldown still counts from second 1.
C39_Witness ==
    \E s \in DOMAIN health :
       /\ ~health[s].healthy
       /\ health[s].unhealthy_since = 1
       /\ now = 2
       /\ health[s].last_check = 2
       /\ health[s].consecutive_failures >= 1
       /\ fstreak[s] >= 2

\* C40: for every value the connection counters can reach, the value
\* 2^32 - 1 that a wrap-around leaves included, LeastConnections::select
\* on a pool that is not empty returns a server.
C40_SelectSomeForNonEmpty ==
    Len(servers) > 0 => LeastConnectionsSelect(servers, connections) # None

====
